---- MODULE Spec2Model ----
(***************************************************************************)
(* A model of the ollama-chat front-end: the streaming chat relay          *)
(* (src/app/api/chat/route.ts), the instance lifecycle actions             *)
(* (src/unnamed/part_001, part_004), the title endpoint                    *)
(* (src/app/api/title/route.ts, src/unnamed/part_003), and the dashboard   *)
(* and chat components (src/components).                                   *)
(*                                                                         *)
(* Text is modelled as a sequence of one-character strings.  The upstream  *)
(* body of the local relay is a sequence of bytes; the bytes "L" "T" are   *)
(* the two bytes of one multi-byte character, decoded to "U".              *)
(***************************************************************************)
EXTENDS Integers, Sequences, FiniteSets, TLC

VARIABLES
    \* ---- handleLocalChat's stream (src/app/api/chat/route.ts:118-164)
    responseBody,     \* the whole upstream body, as the local service sends it
    upstream,         \* the bytes reader.read() has not returned yet
    decoderPending,   \* bytes TextDecoder holds back between decode calls
    buffer,           \* let buffer
    enqueued,         \* what controller.enqueue was called with, in order
    streamState,      \* the outbound stream: "readable", "closed", "errored",
                      \* or "cancelled" by its consumer
    relayPc,          \* "reading" while in the while loop, then "done"
    upstreamFailed,   \* reader.read() rejected
    midLine,          \* some read so far ended inside a line or a character
    \* ---- the server actions (src/unnamed/part_001) and the lifecycle
    \* ---- provider wrapper (src/unnamed/part_004)
    envAdminPassword, \* process.env.ADMIN_PASSWORD
    envInstanceId,    \* process.env.EC2_INSTANCE_ID
    envHfToken,       \* process.env.HF_TOKEN
    attempts,         \* the toggleInstance calls so far: arguments and result
    lifecycleCalls,   \* the startInstance / stopInstance calls made, by attempt
    describeResponse, \* what the provider answered to the last describe call
    statusResult,     \* what the last checkStatus call produced
    \* ---- the title endpoint (src/app/api/title/route.ts, part_003)
    titleRequest,     \* the last request and what its upstream did
    titleResponse,    \* the response to it
    \* ---- the cloud side of the chat relay (src/app/api/chat/route.ts:16-83)
    chatMessages,     \* the messages of the request body
    formattedMessages,\* the messages chat.completions.create, or the request
                      \* to the local chat endpoint, was given
    cloudPc,          \* "request", then "created" (cloud), "forwarded"
                      \* (local) or "rejected"
    \* ---- Dashboard's instance status (src/components/dashboard.tsx:527-628)
    \* ---- and InstanceControl (src/unnamed/part_000)
    mounted,          \* the effects of the first render have run
    status,           \* useState: the displayed state, "null" before any
    polling,          \* useState: the active-polling indicator
    loading,          \* useState: a toggle is in progress
    ollamaCountdown,  \* useState: set by the interval callback (its timer,
                      \* which only counts it down for the chat, is left out)
    prevStateRef,     \* useRef: prevStateRef.current
    queries,          \* the checkStatus calls issued, in order of issue
    applied,          \* the numbers of the queries whose result was applied
    showPasswordPrompt, \* InstanceControl's useState
    promptPassword,   \* InstanceControl's useState (password)
    promptError,      \* InstanceControl's useState (error)
    togglePc,         \* where handleToggle is: "idle", "awaitToggle", "awaitFetch"
    toggleLog,        \* the toggleInstance requests issued by the UI
    \* ---- Dashboard's chats (src/components/dashboard.tsx:61-211) and
    \* ---- ChatInterface (src/components/chat-interface.tsx:327-508)
    chats,            \* useState: the sessions, newest first
    activeChatId,     \* useState
    clock,            \* the last value Date.now() gave
    input,            \* ChatInterface's useState
    isLoading,        \* ChatInterface's useState
    error,            \* ChatInterface's useState: an error is shown
    requests,         \* the handleSubmit calls, each with what its closure holds
    chunksReceived,   \* how many chunks the readers have returned
    pendingImages,    \* ChatInterface's useState
    uploads,          \* the handleImageUpload calls of the mounted instance
    disabled,         \* ChatInterface's prop
    providerProp,     \* ChatInterface's prop provider
    \* ---- POST of the chat route (src/app/api/chat/route.ts:171-190 and
    \* ---- src/unnamed/part_002:166-185), its cloud stream and its consumer
    envNvidiaApiKey,  \* process.env.NVIDIA_API_KEY (part_002)
    envPublicIp,      \* process.env.EC2_PUBLIC_IP (part_002)
    routeRequest,     \* the request POST was called with, and what it met
    routeResponse,    \* the Response it returned
    upstreamCalls,    \* the calls it made to the provider and the upstreams
    cloudStream,      \* the events the completion stream has not yielded yet
    delivered,        \* how many enqueued chunks the consumer has read
    received          \* the text the client has put together from them

relayVars ==
    <<responseBody, upstream, decoderPending, buffer, enqueued, streamState, relayPc,
      upstreamFailed, midLine>>

actionVars ==
    <<envAdminPassword, envInstanceId, envHfToken, attempts, lifecycleCalls,
      describeResponse, statusResult>>

titleVars == <<titleRequest, titleResponse>>

cloudVars == <<chatMessages, formattedMessages, cloudPc>>

pollVars ==
    <<mounted, status, polling, loading, ollamaCountdown, prevStateRef, queries,
      applied, showPasswordPrompt, promptPassword, promptError, togglePc,
      toggleLog>>

composerVars == <<pendingImages, uploads, disabled, providerProp>>

chatVars ==
    <<chats, activeChatId, clock, input, isLoading, error, requests,
      chunksReceived, composerVars>>

routeVars ==
    <<envNvidiaApiKey, envPublicIp, routeRequest, routeResponse, upstreamCalls,
      cloudStream, delivered, received>>

vars ==
    <<relayVars, actionVars, titleVars, cloudVars, pollVars, chatVars,
      routeVars>>

\* what each part of the program leaves alone
exceptRelay ==
    <<actionVars, titleVars, cloudVars, pollVars, chatVars, routeVars>>

exceptActions ==
    <<relayVars, titleVars, cloudVars, pollVars, chatVars, routeVars>>

exceptTitle ==
    <<relayVars, actionVars, cloudVars, pollVars, chatVars, routeVars>>

exceptCloud ==
    <<relayVars, actionVars, titleVars, pollVars, chatVars, routeVars>>

exceptPoll ==
    <<relayVars, actionVars, titleVars, cloudVars, chatVars, routeVars>>

\* the chat route runs the relay's stream
exceptRoute == <<titleVars, cloudVars, pollVars, chatVars>>

exceptChat ==
    <<relayVars, actionVars, titleVars, cloudVars, pollVars, routeVars>>

\* ------------------------------------------------------------------ bounds

MaxLines == 3

MaxAttempts == 3

MaxTurns == 2

MaxQueries == 3

MaxToggles == 1

MaxClock == 8

MaxRequests == 2

MaxChunks == 2

MaxChats == 2

\* handleImageUpload calls in a behaviour, and files in one call
MaxUploads == 2

MaxFiles == 3

\* ------------------------------------------------------------- idle parts
\* Each specification below runs one part of the program; the other parts
\* stay in these states.

Undefined == "undefined"

Null == "null"

None == [kind |-> "none"]

IdleRelay ==
    /\ responseBody = <<>>
    /\ upstream = <<>>
    /\ decoderPending = <<>>
    /\ buffer = <<>>
    /\ enqueued = <<>>
    /\ streamState = "readable"
    /\ relayPc = "idle"
    /\ upstreamFailed = FALSE
    /\ midLine = FALSE

IdleActions ==
    /\ envAdminPassword = Undefined
    /\ envInstanceId = ""
    /\ envHfToken = Undefined
    /\ attempts = <<>>
    /\ lifecycleCalls = <<>>
    /\ describeResponse = None
    /\ statusResult = None

IdleTitle ==
    /\ titleRequest = None
    /\ titleResponse = None

IdleCloud ==
    /\ chatMessages = <<>>
    /\ formattedMessages = <<>>
    /\ cloudPc = "idle"

IdlePoll ==
    /\ mounted = FALSE
    /\ status = "null"
    /\ polling = FALSE
    /\ loading = FALSE
    /\ ollamaCountdown = 0
    /\ prevStateRef = "null"
    /\ queries = <<>>
    /\ applied = <<>>
    /\ showPasswordPrompt = FALSE
    /\ promptPassword = ""
    /\ promptError = ""
    /\ togglePc = "idle"
    /\ toggleLog = <<>>

IdleChat ==
    /\ chats = <<>>
    /\ activeChatId = 0
    /\ clock = 0
    /\ input = ""
    /\ isLoading = FALSE
    /\ error = FALSE
    /\ requests = <<>>
    /\ chunksReceived = 0
    /\ pendingImages = <<>>
    /\ uploads = <<>>
    /\ disabled = FALSE
    /\ providerProp = "cloud"

IdleRoute ==
    /\ envNvidiaApiKey = Undefined
    /\ envPublicIp = Undefined
    /\ routeRequest = None
    /\ routeResponse = None
    /\ upstreamCalls = <<>>
    /\ cloudStream = <<>>
    /\ delivered = 0
    /\ received = <<>>

\* ------------------------------------------------------------ text helpers

LF == "\n"

Whitespace == {" ", LF}

Last(s) == s[Len(s)]

Front(s) == SubSeq(s, 1, Len(s) - 1)

RECURSIVE TrimStart(_)
TrimStart(s) ==
    IF s /= <<>> /\ Head(s) \in Whitespace THEN TrimStart(Tail(s)) ELSE s

RECURSIVE TrimEnd(_)
TrimEnd(s) ==
    IF s /= <<>> /\ Last(s) \in Whitespace THEN TrimEnd(Front(s)) ELSE s

\* String.prototype.trim
trim(s) == TrimEnd(TrimStart(s))

\* String.prototype.split("\n"): always at least one element
RECURSIVE SplitRec(_, _, _)
SplitRec(s, cur, acc) ==
    IF s = <<>> THEN Append(acc, cur)
    ELSE IF Head(s) = LF THEN SplitRec(Tail(s), <<>>, Append(acc, cur))
    ELSE SplitRec(Tail(s), Append(cur, Head(s)), acc)

split(s) == SplitRec(s, <<>>, <<>>)

\* ------------------------------------------------- the local relay's parser

\* The characters a message.content string is made of.
ContentChars == {"a", "b", "U"}

\* JSON.parse on one line of the local service's output.  "<" stands for the
\* opening  {"message":{"content":"  and ">" for the closing  "}} ; "o" is an
\* object without a message (such as {"done":true}); "n" is the literal null.
\* JSON.parse accepts whitespace around the value and throws on anything else.
JSONparse(s) ==
    LET t == trim(s) IN
    IF t = <<"n">> THEN [kind |-> "null", content |-> <<>>]
    ELSE IF t = <<"o">> THEN [kind |-> "object", content |-> <<>>]
    ELSE IF /\ Len(t) >= 2
            /\ Head(t) = "<"
            /\ Last(t) = ">"
            /\ \A i \in 2..(Len(t) - 1) : t[i] \in ContentChars
         THEN [kind |-> "object", content |-> SubSeq(t, 2, Len(t) - 1)]
    ELSE [kind |-> "throw", content |-> <<>>]

\* try { const json = JSON.parse(line);
\*       if (json.message?.content) controller.enqueue(json.message.content) }
\* catch (e) { console.error(...) }
\* The fragments one line makes the controller enqueue.  json.message on null
\* throws a TypeError inside the same try block, and is caught with the
\* parse errors.
ParseAndEmit_rawOnError(line) ==
    LET json == JSONparse(line) IN
    IF json.kind = "throw" \/ json.kind = "null" THEN <<line>>
    ELSE IF json.content /= <<>> THEN <<json.content>>
    ELSE <<>>

ParseAndEmit(line) ==
    LET json == JSONparse(line) IN
    IF json.kind = "throw" \/ json.kind = "null" THEN <<>>
    ELSE IF json.content /= <<>> THEN <<json.content>>
    ELSE <<>>

\* for (const line of lines) { if (!line.trim()) continue; ... }
RECURSIVE EmitLines(_)
EmitLines(lines) ==
    IF lines = <<>> THEN <<>>
    ELSE (IF trim(Head(lines)) = <<>> THEN <<>> ELSE ParseAndEmit(Head(lines)))
         \o EmitLines(Tail(lines))

\* decoder.decode(value, { stream: true }): an incomplete multi-byte sequence at
\* the end of value is held back and completed by the next call; an invalid
\* sequence decodes to the replacement character "?".
RECURSIVE DecodeRec(_, _, _)
DecodeRec(p, bs, acc) ==
    IF bs = <<>> THEN [chars |-> acc, pending |-> p]
    ELSE IF p = <<"L">>
         THEN IF Head(bs) = "T"
              THEN DecodeRec(<<>>, Tail(bs), Append(acc, "U"))
              ELSE DecodeRec(<<>>, bs, Append(acc, "?"))
    ELSE IF Head(bs) = "L" THEN DecodeRec(<<"L">>, Tail(bs), acc)
    ELSE IF Head(bs) = "T" THEN DecodeRec(<<>>, Tail(bs), Append(acc, "?"))
    ELSE DecodeRec(<<>>, Tail(bs), Append(acc, Head(bs)))

\* the same call without { stream: true }: every call starts afresh and a
\* trailing incomplete sequence is flushed as "?"
decode_noStream(pending, value) ==
    LET r == DecodeRec(<<>>, value, <<>>) IN
    [chars |-> r.chars \o (IF r.pending = <<>> THEN <<>> ELSE <<"?">>),
     pending |-> <<>>]

decode(pending, value) == DecodeRec(pending, value, <<>>)

\* buffer = lines.pop() || ""
popBuffer_dropped(lines) == <<>>

popBuffer(lines) == Last(lines)

\* if (done) { if (buffer) { try { JSON.parse(buffer) ... enqueue } catch {} } }
finalBuffer_ignored(buf) == <<>>

finalBuffer(buf) == IF buf /= <<>> THEN ParseAndEmit(buf) ELSE <<>>

\* ------------------------------------------------- handleLocalChat's stream

\* const { done, value } = await reader.read()  with done = false:
\* value is the next n bytes of the body, for any n the network chooses.
\* On a stream that is no longer readable controller.enqueue throws inside
\* the try block of the line, is caught with the parse errors, and the loop
\* goes on.
ReadChunk(n) ==
    /\ relayPc = "reading"
    /\ n \in 1..Len(upstream)
    /\ LET value == SubSeq(upstream, 1, n)
           d     == decode(decoderPending, value)
           lines == split(buffer \o d.chars)
       IN /\ decoderPending' = d.pending
          /\ buffer' = popBuffer(lines)
          /\ enqueued' = IF streamState = "readable"
                         THEN enqueued \o EmitLines(Front(lines))
                         ELSE enqueued
          /\ midLine' = \/ midLine
                         \/ /\ n < Len(upstream)
                            /\ (Last(lines) /= <<>> \/ d.pending /= <<>>)
    /\ upstream' = SubSeq(upstream, n + 1, Len(upstream))
    /\ UNCHANGED <<responseBody, streamState, relayPc, upstreamFailed>>

\* reader.read() resolves with done = true: the leftover buffer is parsed,
\* the loop breaks and finally { controller.close() } closes the stream.
ReadDone ==
    /\ relayPc = "reading"
    /\ upstream = <<>>
    /\ enqueued' = IF streamState = "readable"
                   THEN enqueued \o finalBuffer(buffer) ELSE enqueued
    /\ streamState' = IF streamState = "readable" THEN "closed" ELSE streamState
    /\ relayPc' = "done"
    /\ UNCHANGED <<responseBody, upstream, decoderPending, buffer, upstreamFailed,
                   midLine>>

\* reader.read() rejects: catch (err) { controller.error(err) }; the close()
\* of the finally block then throws on the errored stream and changes nothing.
ReadFail ==
    /\ relayPc = "reading"
    /\ upstreamFailed' = TRUE
    /\ streamState' = IF streamState = "readable" THEN "errored" ELSE streamState
    /\ relayPc' = "done"
    /\ UNCHANGED <<responseBody, upstream, decoderPending, buffer, enqueued, midLine>>

\* ------------------------------------------------------ upstream bodies

\* The lines the local service may send: well-formed ones first, then lines
\* JSON.parse rejects (a truncated object, garbage) and the null literal.
WellFormedLines ==
    { <<"<", "a", ">">>, <<"<", "b", "a", ">">>, <<"<", "L", "T", ">">>,
      <<"<", ">">>, <<"o">>, <<" ", "<", "b", ">">>, <<>> }

MalformedLines == { <<"<", "a">>, <<"x">>, <<"n">> }

BodyLines == WellFormedLines \cup MalformedLines

RECURSIVE Join(_)
Join(ls) ==
    IF ls = <<>> THEN <<>>
    ELSE IF Len(ls) = 1 THEN Head(ls)
    ELSE Head(ls) \o <<LF>> \o Join(Tail(ls))

LineSeqs == UNION { [1..n -> BodyLines] : n \in 0..MaxLines }

\* the body: the lines joined by newlines, with or without a final newline
Bodies ==
    { Join(ls) \o t : ls \in LineSeqs, t \in {<<>>, <<LF>>} }

InitRelay ==
    /\ responseBody \in Bodies
    /\ upstream = responseBody
    /\ decoderPending = <<>>
    /\ buffer = <<>>
    /\ enqueued = <<>>
    /\ streamState = "readable"
    /\ relayPc = "reading"
    /\ upstreamFailed = FALSE
    /\ midLine = FALSE
    /\ IdleActions
    /\ IdleTitle
    /\ IdleCloud
    /\ IdlePoll
    /\ IdleChat
    /\ IdleRoute

NextRelay ==
    \/ \E n \in 1..Len(upstream) :
           ReadChunk(n) /\ UNCHANGED exceptRelay
    \/ ReadDone /\ UNCHANGED exceptRelay
    \/ ReadFail /\ UNCHANGED exceptRelay

SpecRelay == InitRelay /\ [][NextRelay]_vars

\* --------------------------------------- lifecycle provider (part_004)

\* instance.State.Name as the provider reports it
InstanceStates ==
    {"pending", "running", "shutting-down", "terminated", "stopping", "stopped"}

\* The provider's answer to DescribeInstances: the send throws, or there is no
\* matching instance, or there is one, with or without a state name and a
\* public address.
DescribeResponses ==
    { [kind |-> "throw"], [kind |-> "empty"] }
    \cup [kind : {"instance"}, name : InstanceStates \cup {Undefined},
          address : {Undefined, "1.2.3.4"}]

\* getInstanceStatus(): throws without an instance id or when the send throws,
\* returns the string "unknown" without a matching instance, and otherwise
\* { state: Name || "unknown", publicIp: PublicIpAddress || null }
getInstanceStatus(instanceId, resp) ==
    IF instanceId = "" \/ instanceId = Undefined THEN [kind |-> "throw"]
    ELSE IF resp.kind = "throw" THEN [kind |-> "throw"]
    ELSE IF resp.kind = "empty" THEN [kind |-> "string"]
    ELSE [kind |-> "object",
          state |-> IF resp.name = Undefined THEN "unknown" ELSE resp.name,
          publicIp |-> IF resp.address = Undefined \/ resp.address = ""
                       THEN Null ELSE resp.address]

\* startInstance() / stopInstance(): throw without an instance id, otherwise
\* send the command, which the provider accepts or rejects (the send throws)
sendCommand(instanceId, providerAccepts) ==
    IF instanceId = "" \/ instanceId = Undefined THEN "throw"
    ELSE IF providerAccepts THEN "ok" ELSE "throw"

\* ------------------------------------------------ server actions (part_001)

\* if (!adminPassword || password !== adminPassword) return { success: false }
passwordRejected_and(adminPassword, password) ==
    (adminPassword = Undefined \/ adminPassword = "")
        /\ password /= adminPassword

passwordRejected(adminPassword, password) ==
    \/ adminPassword = Undefined \/ adminPassword = ""
    \/ password /= adminPassword

\* if (action === "start") await startInstance(); else await stopInstance();
lifecycleFunction_alwaysStart(action) == "startInstance"

lifecycleFunction(action) ==
    IF action = "start" THEN "startInstance" ELSE "stopInstance"

\* toggleInstance(action, password): the result it returns, and the lifecycle
\* function it called (none when the password is rejected) with what came
\* of that call
toggleInstance(adminPassword, instanceId, action, password, providerAccepts) ==
    IF passwordRejected(adminPassword, password)
    THEN [success |-> FALSE, error |-> "Invalid password", called |-> <<>>,
          outcome |-> "none"]
    ELSE LET fn == lifecycleFunction(action)
             outcome == sendCommand(instanceId, providerAccepts)
         IN  IF outcome = "ok"
             THEN [success |-> TRUE, error |-> Undefined, called |-> <<fn>>,
                   outcome |-> outcome]
             ELSE [success |-> FALSE, error |-> "Failed to perform action",
                   called |-> <<fn>>, outcome |-> outcome]

StatusUnknown(hfToken) ==
    [kind |-> "return", state |-> "unknown", publicIp |-> Null,
     hasCloudModel |-> (hfToken /= Undefined /\ hfToken /= "")]

\* checkStatus() without its try/catch
checkStatus_noCatch(instanceId, hfToken, resp) ==
    LET instStatus == getInstanceStatus(instanceId, resp) IN
    IF instStatus.kind = "throw" THEN [kind |-> "raise"]
    ELSE IF instStatus.kind = "string" THEN StatusUnknown(hfToken)
    ELSE [kind |-> "return",
          state |-> IF instStatus.state = "" THEN "unknown" ELSE instStatus.state,
          publicIp |-> instStatus.publicIp,
          hasCloudModel |-> (hfToken /= Undefined /\ hfToken /= "")]

\* checkStatus(): try { status = await getInstanceStatus(); ... }
\*                catch { return { state: "unknown", publicIp: null, ... } }
checkStatus(instanceId, hfToken, resp) ==
    LET instStatus == getInstanceStatus(instanceId, resp) IN
    IF instStatus.kind = "throw" THEN StatusUnknown(hfToken)
    ELSE IF instStatus.kind = "string" THEN StatusUnknown(hfToken)
    ELSE [kind |-> "return",
          state |-> IF instStatus.state = "" THEN "unknown" ELSE instStatus.state,
          publicIp |-> instStatus.publicIp,
          hasCloudModel |-> (hfToken /= Undefined /\ hfToken /= "")]

Passwords == {"", "secret", "Secret"}

\* a client calls toggleInstance(action, password)
ToggleInstance(action, password, providerAccepts) ==
    /\ Len(attempts) < MaxAttempts
    /\ LET r == toggleInstance(envAdminPassword, envInstanceId, action,
                               password, providerAccepts)
           i == Len(attempts) + 1
       IN /\ attempts' = Append(attempts,
                 [action |-> action, password |-> password,
                  success |-> r.success, error |-> r.error])
          /\ lifecycleCalls' =
                 lifecycleCalls \o [k \in 1..Len(r.called) |->
                                       [fn |-> r.called[k], attempt |-> i,
                                        outcome |-> r.outcome]]
    /\ UNCHANGED <<envAdminPassword, envInstanceId, envHfToken,
                   describeResponse, statusResult>>

\* a client calls checkStatus()
CheckStatus(resp) ==
    /\ describeResponse' = resp
    /\ statusResult' = checkStatus(envInstanceId, envHfToken, resp)
    /\ UNCHANGED <<envAdminPassword, envInstanceId, envHfToken, attempts,
                   lifecycleCalls>>

InitActions ==
    /\ envAdminPassword \in {Undefined, "", "secret"}
    /\ envInstanceId \in {"", "i-0abc"}
    /\ envHfToken \in {Undefined, "hf_token"}
    /\ attempts = <<>>
    /\ lifecycleCalls = <<>>
    /\ describeResponse = None
    /\ statusResult = None
    /\ IdleRelay
    /\ IdleTitle
    /\ IdleCloud
    /\ IdlePoll
    /\ IdleChat
    /\ IdleRoute

NextActions ==
    \/ \E action \in {"start", "stop"}, password \in Passwords,
          providerAccepts \in BOOLEAN :
           ToggleInstance(action, password, providerAccepts)
           /\ UNCHANGED exceptActions
    \/ \E resp \in DescribeResponses :
           CheckStatus(resp)
           /\ UNCHANGED exceptActions

SpecActions == InitActions /\ [][NextActions]_vars

\* ------------------------------------ the title endpoint (title/route.ts)

FallbackLen == 40

MaxTitleLen == 50

TruncatedLen == 47

Quotes == {"\"", "'"}

OpenTag == <<"<", "t", "h", "i", "n", "k", ">">>

CloseTag == <<"<", "/", "t", "h", "i", "n", "k", ">">>

\* the i flag of the regular expressions
ToLower(c) ==
    CASE c = "T" -> "t" [] c = "H" -> "h" [] c = "I" -> "i"
      [] c = "N" -> "n" [] c = "K" -> "k" [] OTHER -> c

MatchAt(s, i, pat) ==
    /\ i + Len(pat) - 1 <= Len(s)
    /\ \A k \in 1..Len(pat) : ToLower(s[i + k - 1]) = pat[k]

\* the first index from `from` on where pat matches, 0 when there is none
FirstMatch(s, from, pat) ==
    IF \E i \in from..Len(s) : MatchAt(s, i, pat)
    THEN CHOOSE i \in from..Len(s) :
             /\ MatchAt(s, i, pat)
             /\ \A j \in from..(i - 1) : ~MatchAt(s, j, pat)
    ELSE 0

\* message.slice(0, n)
slice(s, n) == SubSeq(s, 1, IF Len(s) < n THEN Len(s) ELSE n)

\* .replace(/<think>[\s\S]*?<\/think>/gi, ""): every section from an opening
\* marker to the nearest closing marker after it
RECURSIVE stripThinkSections(_)
stripThinkSections(s) ==
    LET i == FirstMatch(s, 1, OpenTag) IN
    IF i = 0 THEN s
    ELSE LET j == FirstMatch(s, i + Len(OpenTag), CloseTag) IN
         IF j = 0 THEN s
         ELSE SubSeq(s, 1, i - 1)
                \o stripThinkSections(SubSeq(s, j + Len(CloseTag), Len(s)))

\* .replace(/<think>[\s\S]*$/gi, ""): an unterminated section, to the end
stripOpenThink(s) ==
    LET i == FirstMatch(s, 1, OpenTag) IN
    IF i = 0 THEN s ELSE SubSeq(s, 1, i - 1)

\* .replace(/^["']|["']$/g, ""): one quote at the start, one at the end
stripQuotes(s) ==
    LET a == IF s /= <<>> /\ s[1] \in Quotes THEN 2 ELSE 1
        b == IF Len(s) >= a /\ s[Len(s)] \in Quotes THEN Len(s) - 1 ELSE Len(s)
    IN  SubSeq(s, a, b)

\* .replace(/\n/g, " ")
newlinesToSpaces(s) == [i \in 1..Len(s) |-> IF s[i] = LF THEN " " ELSE s[i]]

\* generateTitleLocal's chain on data.response
cleanLocal(s) ==
    trim(newlinesToSpaces(stripQuotes(stripOpenThink(stripThinkSections(s)))))

\* POST's chain on the generated title
cleanTitle(s) == trim(newlinesToSpaces(stripQuotes(s)))

\* the same test, cutting at the limit itself
limitLength_cutAtLimit(s) ==
    IF Len(s) > MaxTitleLen THEN slice(s, MaxTitleLen) \o <<".", ".", ".">>
    ELSE s

\* if (title.length > 50) title = title.slice(0, 47) + "..."
limitLength(s) ==
    IF Len(s) > MaxTitleLen THEN slice(s, TruncatedLen) \o <<".", ".", ".">>
    ELSE s

\* x || y on strings: an absent and an empty x are both falsy, and both are
\* the empty text here
orElse(x, y) == IF x = <<>> THEN y ELSE x

\* generateTitleCloud(message): the completion call throws, or answers with
\* a content (or none): content?.trim() || message.slice(0, 40)
generateTitleCloud(message, up) ==
    IF up.kind /= "ok" THEN [kind |-> "throw"]
    ELSE [kind |-> "return",
          title |-> orElse(trim(up.text), slice(message, FallbackLen))]

\* generateTitleLocal(message, ip, model): fetch throws; or the response is
\* not ok; or its json() throws; or data.response is cleaned
generateTitleLocal(message, up) ==
    IF up.kind = "throw" \/ up.kind = "badjson" THEN [kind |-> "throw"]
    ELSE IF up.kind = "notok"
    THEN [kind |-> "return", title |-> slice(message, FallbackLen)]
    ELSE [kind |-> "return",
          title |-> cleanLocal(orElse(up.text, slice(message, FallbackLen)))]

Fallback(message) == [kind |-> "json", title |-> slice(message, FallbackLen)]

\* typeof status === "string" || status.state !== "running" || !status.publicIp
notRunning(instStatus) ==
    \/ instStatus.kind = "string"
    \/ instStatus.state /= "running"
    \/ instStatus.publicIp = Null

\* POST of src/app/api/title/route.ts
TitlePOST(message, provider, hfToken, instanceId, resp, up) ==
    LET instStatus    == getInstanceStatus(instanceId, resp)
        generated == IF provider = "cloud"
                     THEN generateTitleCloud(message, up)
                     ELSE generateTitleLocal(message, up)
    IN  IF provider = "cloud" /\ (hfToken = Undefined \/ hfToken = "")
        THEN Fallback(message)
        ELSE IF provider /= "cloud" /\ instStatus.kind = "throw"
        THEN Fallback(message)
        ELSE IF provider /= "cloud" /\ notRunning(instStatus)
        THEN Fallback(message)
        ELSE IF generated.kind = "throw" THEN Fallback(message)
        ELSE [kind |-> "json",
              title |-> orElse(limitLength(cleanTitle(generated.title)),
                               slice(message, FallbackLen))]

\* POST of src/unnamed/part_003: the local provider only, with the lifecycle
\* query before the try block
TitlePOSTLocalOnly(message, instanceId, resp, up) ==
    LET instStatus == getInstanceStatus(instanceId, resp) IN
    IF instStatus.kind = "throw" THEN [kind |-> "raise", title |-> <<>>]
    ELSE IF notRunning(instStatus) THEN Fallback(message)
    ELSE IF up.kind = "throw" \/ up.kind = "badjson" THEN Fallback(message)
    ELSE IF up.kind = "notok" THEN Fallback(message)
    ELSE [kind |-> "json",
          title |-> orElse(limitLength(cleanLocal(
                               orElse(up.text, slice(message, FallbackLen)))),
                           slice(message, FallbackLen))]

\* ---- the requests and upstream answers of the title specification

QuicksortExplained ==
    <<"Q", "u", "i", "c", "k", "s", "o", "r", "t", " ", "E", "x", "p", "l",
      "a", "i", "n", "e", "d">>

ExplainQuicksort ==
    <<"E", "x", "p", "l", "a", "i", "n", " ", "q", "u", "i", "c", "k", "s",
      "o", "r", "t", " ", "t", "o", " ", "m", "e">>

\* a message that starts with a quote
QuotedMessage ==
    <<"\"", "h", "i", "\"", " ", "s", "h", "e", " ", "s", "a", "i", "d">>

\* a message longer than the fallback length
LongMessage == [i \in 1..(FallbackLen + 5) |-> IF i % 7 = 0 THEN " " ELSE "m"]

TitleMessages == {ExplainQuicksort, QuotedMessage, LongMessage}

\* <think>ok</think>"Quicksort Explained"
ThinkThenQuoted ==
    OpenTag \o <<"o", "k">> \o CloseTag
        \o <<"\"">> \o QuicksortExplained \o <<"\"">>

\* "Quicksort Explained"<think>ok
QuotedThenOpenThink ==
    <<"\"">> \o QuicksortExplained \o <<"\"">> \o OpenTag \o <<"o", "k">>

\* a title longer than the limit
LongTitle == [i \in 1..(MaxTitleLen + 5) |-> IF i % 9 = 0 THEN " " ELSE "t"]

\* a title of exactly the limit
TitleAtLimit == [i \in 1..MaxTitleLen |-> IF i % 9 = 0 THEN " " ELSE "t"]

UpstreamTexts ==
    { ThinkThenQuoted, QuotedThenOpenThink, QuicksortExplained, TitleAtLimit,
      <<"'">> \o QuicksortExplained \o <<"'", LF>>,
      <<"S", "o", "r", "t", LF, "i", "n", "g">>,
      <<"<", "T", "h", "i", "n", "k", ">", "o", "k">>,
      LongTitle, <<>> }

TitleUpstreams ==
    { [kind |-> k, text |-> <<>>] : k \in {"throw", "notok", "badjson"} }
    \cup { [kind |-> "ok", text |-> t] : t \in UpstreamTexts }

\* a not-ok HTTP answer or an unreadable body makes the cloud client throw
CloudUpstream(up) ==
    IF up.kind \in {"notok", "badjson"}
    THEN [kind |-> "throw", text |-> <<>>] ELSE up

\* the lifecycle answers that the endpoint tells apart
TitleDescribes ==
    { r \in DescribeResponses :
        r.kind = "instance" => r.name \in {"running", "stopped", Undefined} }

TitleRequest(endpoint, message, provider, resp, up) ==
    /\ titleRequest' =
           [endpoint |-> endpoint, message |-> message, provider |-> provider,
            describe |-> resp, upstream |-> up]
    /\ titleResponse' =
           IF endpoint = "title/route.ts"
           THEN TitlePOST(message, provider, envHfToken, envInstanceId, resp,
                          IF provider = "cloud" THEN CloudUpstream(up) ELSE up)
           ELSE TitlePOSTLocalOnly(message, envInstanceId, resp, up)
    /\ UNCHANGED exceptTitle

InitTitle ==
    /\ envAdminPassword = Undefined
    /\ envInstanceId \in {"", "i-0abc"}
    /\ envHfToken \in {Undefined, "hf_token"}
    /\ attempts = <<>>
    /\ lifecycleCalls = <<>>
    /\ describeResponse = None
    /\ statusResult = None
    /\ IdleRelay
    /\ IdleTitle
    /\ IdleCloud
    /\ IdlePoll
    /\ IdleChat
    /\ IdleRoute

NextTitle ==
    \E endpoint \in {"title/route.ts", "part_003"}, message \in TitleMessages,
       provider \in {"local", "cloud"}, resp \in TitleDescribes,
       up \in TitleUpstreams :
        TitleRequest(endpoint, message, provider, resp, up)

SpecTitle == InitTitle /\ [][NextTitle]_vars

\* ------------------------------- handleCloudChat (chat/route.ts:16-83)

DefaultImagePrompt == "Describe this image."

ImagePart(img) == [type |-> "image_url", url |-> img, text |-> ""]

TextPart(t) == [type |-> "text", url |-> "", text |-> t]

\* the text part: m.content when it is truthy, else the default prompt
textPartOf(m) ==
    IF m.content /= "" THEN TextPart(m.content)
    ELSE TextPart(DefaultImagePrompt)

\* the multimodal content with the text part put before the images
multimodalContent_textFirst(m) ==
    <<textPartOf(m)>> \o [k \in 1..Len(m.images) |-> ImagePart(m.images[k])]

\* for (const img of m.images) content.push(image_url); content.push(text)
multimodalContent(m) ==
    [k \in 1..Len(m.images) |-> ImagePart(m.images[k])] \o <<textPartOf(m)>>

\* the callback of messages.map: a user message with images gets the
\* structured content, every other message keeps its string content
formatMessage(m) ==
    IF m.hasImages /\ Len(m.images) > 0 /\ m.role = "user"
    THEN [role |-> m.role, kind |-> "parts", text |-> "",
          parts |-> multimodalContent(m)]
    ELSE [role |-> m.role, kind |-> "string", text |-> m.content,
          parts |-> <<>>]

formatMessages(messages) ==
    [i \in 1..Len(messages) |-> formatMessage(messages[i])]

\* the messages a request body may carry: images is absent (hasImages is
\* FALSE), or a list of zero to two data URLs
Images == {"img1", "img2"}

ImageLists ==
    {<<>>} \cup {<<a>> : a \in Images} \cup {<<a, b>> : a, b \in Images}

RequestMessages ==
    [role : {"user", "assistant", "system"}, content : {"", "hello"},
     hasImages : {TRUE}, images : ImageLists]
    \cup [role : {"user", "assistant", "system"}, content : {"", "hello"},
          hasImages : {FALSE}, images : {<<>>}]


\* ------------------- POST of the chat route (chat/route.ts, part_002)

MaxEvents == 3

\* if (!process.env.HF_TOKEN) / if (!process.env.NVIDIA_API_KEY)
credentialMissing_never(token) == FALSE

credentialMissing(token) == token = Undefined \/ token = ""

\* typeof status === "string" || status.state !== "running"
\* without the test of the address
unavailable_stateOnly(instStatus) ==
    \/ instStatus.kind = "string"
    \/ instStatus.state /= "running"

\* typeof status === "string" || status.state !== "running" || !status.publicIp
unavailable(instStatus) ==
    \/ instStatus.kind = "string"
    \/ instStatus.state /= "running"
    \/ instStatus.publicIp = Null

\* What a handler comes to: it throws, or it returns a Response with a status,
\* whose body is a stream ("cloud", "local") or a short text ("none").  calls
\* are the requests it issued on the way.
Thrown(calls) == [kind |-> "throw", status |-> 0, stream |-> "none",
                  calls |-> calls]

Answer(code, calls) == [kind |-> "response", status |-> code,
                          stream |-> "none", calls |-> calls]

Streaming(stream, calls) == [kind |-> "response", status |-> 200,
                             stream |-> stream, calls |-> calls]

\* handleCloudChat: getHFClient() / getCloudClient(), then
\* client.chat.completions.create, which throws or returns the stream
handleCloudChat(up) ==
    IF up.kind = "throw"
    THEN Thrown(<<"new OpenAI", "completions.create">>)
    ELSE Streaming("cloud", <<"new OpenAI", "completions.create">>)

\* await fetch(`http://${publicIp}:11434/api/chat`) and the tests of its
\* response
fetchOllama(up, calls) ==
    IF up.kind = "throw" THEN Thrown(Append(calls, "fetch ollama"))
    ELSE IF up.kind = "notOk" THEN Answer(up.status, Append(calls, "fetch ollama"))
    ELSE IF up.kind = "noBody" THEN Answer(500, Append(calls, "fetch ollama"))
    ELSE Streaming("local", Append(calls, "fetch ollama"))

\* handleLocalChat of chat/route.ts
handleLocalChat(instanceId, resp, up) ==
    LET instStatus == getInstanceStatus(instanceId, resp)
        calls == IF instanceId = "" \/ instanceId = Undefined
                 THEN <<>> ELSE <<"DescribeInstances">>
    IN  IF instStatus.kind = "throw" THEN Thrown(calls)
        ELSE IF unavailable(instStatus) THEN Answer(503, calls)
        ELSE fetchOllama(up, calls)

\* handleLocalChat of part_002: the address comes from EC2_PUBLIC_IP
handleLocalChatEnv(publicIp, up) ==
    IF publicIp = Undefined \/ publicIp = "" THEN Answer(503, <<>>)
    ELSE fetchOllama(up, <<>>)

caught_asSuccess(r) ==
    IF r.kind = "throw" THEN Answer(200, r.calls) ELSE r

\* try { ... } catch (error) { return new Response("Failed ...", 500) }
caught(r) == IF r.kind = "throw" THEN Answer(500, r.calls) ELSE r

\* POST of chat/route.ts
POST(provider, hfToken, instanceId, resp, up) ==
    IF provider = "cloud"
    THEN IF credentialMissing(hfToken) THEN Answer(500, <<>>)
         ELSE caught(handleCloudChat(up))
    ELSE caught(handleLocalChat(instanceId, resp, up))

\* POST of part_002
POSTpart002(provider, apiKey, publicIp, up) ==
    IF provider = "cloud"
    THEN IF credentialMissing(apiKey) THEN Answer(500, <<>>)
         ELSE caught(handleCloudChat(up))
    ELSE caught(handleLocalChatEnv(publicIp, up))

\* chunk.choices[0]?.delta?.content of the events the completion stream
\* yields: an event without choices, or a delta with a content ("" included)
CloudEvents ==
    { [kind |-> "noChoices", content |-> <<>>],
      [kind |-> "delta", content |-> <<>>],
      [kind |-> "delta", content |-> <<"a">>],
      [kind |-> "delta", content |-> <<"b", "U">>] }

EventSeqs == UNION { [1..n -> CloudEvents] : n \in 0..MaxEvents }

\* the bodies the local service answers a chat request with
RouteLines == { <<"<", "a", ">">>, <<"<", "L", "T", ">">>, <<"o">>, <<"x">> }

RouteBodies ==
    { Join(ls) \o t : ls \in UNION { [1..n -> RouteLines] : n \in 0..MaxLines },
                      t \in {<<>>, <<LF>>} }

\* what the upstream of a provider does with the request
RouteUpstreams(provider) ==
    IF provider = "cloud"
    THEN {[kind |-> "throw"]} \cup [kind : {"stream"}, events : EventSeqs]
    ELSE {[kind |-> "throw"], [kind |-> "notOk", status |-> 404],
          [kind |-> "notOk", status |-> 500], [kind |-> "noBody"]}
         \cup [kind : {"body"}, body : RouteBodies]

\* a client calls POST; the stream of the Response starts with it
ChatPOST(endpoint, provider, resp, up) ==
    /\ routeRequest = None
    /\ LET r == IF endpoint = "route"
                THEN POST(provider, envHfToken, envInstanceId, resp, up)
                ELSE POSTpart002(provider, envNvidiaApiKey, envPublicIp, up)
       IN /\ routeRequest' =
                 [endpoint |-> endpoint, provider |-> provider,
                  lifecycle |-> IF endpoint = "route" /\ provider /= "cloud"
                                THEN getInstanceStatus(envInstanceId, resp)
                                ELSE None,
                  upstream |-> up.kind,
                  events |-> IF r.stream = "cloud" THEN up.events ELSE <<>>]
          /\ routeResponse' = [status |-> r.status, stream |-> r.stream]
          /\ upstreamCalls' = r.calls
          /\ cloudStream' = IF r.stream = "cloud" THEN up.events ELSE <<>>
          /\ relayPc' = CASE r.stream = "cloud" -> "iterating"
                          [] r.stream = "local" -> "reading"
                          [] OTHER -> "idle"
          /\ responseBody' = IF r.stream = "local" THEN up.body ELSE <<>>
          /\ upstream' = IF r.stream = "local" THEN up.body ELSE <<>>
    /\ UNCHANGED <<decoderPending, buffer, enqueued, streamState,
                   upstreamFailed, midLine>>
    /\ UNCHANGED <<actionVars, envNvidiaApiKey, envPublicIp, delivered,
                   received>>

\* for await (const chunk of stream) { const content = ...;
\*     if (content) controller.enqueue(content) }: one turn of the loop.
\* On a stream that is no longer readable enqueue throws: the catch block
\* and the finally block change nothing and the loop is left.
CloudChunk ==
    /\ relayPc = "iterating"
    /\ cloudStream /= <<>>
    /\ enqueued' = IF Head(cloudStream).content /= <<>>
                        /\ streamState = "readable"
                   THEN Append(enqueued, Head(cloudStream).content)
                   ELSE enqueued
    /\ cloudStream' = Tail(cloudStream)
    /\ relayPc' = IF Head(cloudStream).content /= <<>>
                       /\ streamState /= "readable"
                  THEN "done" ELSE relayPc
    /\ UNCHANGED <<responseBody, upstream, decoderPending, buffer, streamState,
                   upstreamFailed, midLine>>
    /\ UNCHANGED <<actionVars, envNvidiaApiKey, envPublicIp, routeRequest,
                   routeResponse, upstreamCalls, delivered, received>>

\* the completion stream ends: finally { controller.close() }
CloudDone ==
    /\ relayPc = "iterating"
    /\ cloudStream = <<>>
    /\ streamState' = IF streamState = "readable" THEN "closed" ELSE streamState
    /\ relayPc' = "done"
    /\ UNCHANGED <<responseBody, upstream, decoderPending, buffer, enqueued,
                   upstreamFailed, midLine>>
    /\ UNCHANGED <<actionVars, routeVars>>

\* the iteration throws: catch (err) { controller.error(err) }; the close()
\* of the finally block then throws on the errored stream and changes nothing
CloudFail ==
    /\ relayPc = "iterating"
    /\ upstreamFailed' = TRUE
    /\ streamState' = IF streamState = "readable" THEN "errored" ELSE streamState
    /\ relayPc' = "done"
    /\ UNCHANGED <<responseBody, upstream, decoderPending, buffer, enqueued,
                   midLine>>
    /\ UNCHANGED <<actionVars, routeVars>>

\* setMessages(... content: m.content + chunk ...) of the client
clientAppend_replace(content, chunk) == chunk

clientAppend(content, chunk) == content \o chunk

\* The consumer of the Response body reads the next chunk of the stream's
\* queue and the client appends it to the assistant turn.  close() leaves the
\* queued chunks readable; error() empties the queue, so nothing is read from
\* an errored stream.
ConsumerRead ==
    /\ routeResponse /= None
    /\ streamState \in {"readable", "closed"}
    /\ delivered < Len(enqueued)
    /\ delivered' = delivered + 1
    /\ received' = clientAppend(received, enqueued[delivered + 1])
    /\ UNCHANGED <<relayVars, actionVars, envNvidiaApiKey, envPublicIp,
                   routeRequest, routeResponse, upstreamCalls, cloudStream>>

\* The consumer cancels the body (the caller disconnected): the stream is
\* closed from its reading end.  Neither ReadableStream is given a cancel
\* callback, so nothing of the relay runs at this moment.
ConsumerCancel ==
    /\ routeResponse /= None
    /\ routeResponse.stream /= "none"
    /\ streamState = "readable"
    /\ streamState' = "cancelled"
    /\ UNCHANGED <<responseBody, upstream, decoderPending, buffer, enqueued,
                   relayPc, upstreamFailed, midLine>>
    /\ UNCHANGED <<actionVars, routeVars>>

\* One deployment: chat/route.ts reads HF_TOKEN and EC2_INSTANCE_ID, part_002
\* reads NVIDIA_API_KEY and EC2_PUBLIC_IP.
InitRoute ==
    /\ envHfToken \in {Undefined, "hf_token"}
    /\ envInstanceId \in {"", "i-0abc"}
    /\ envNvidiaApiKey \in {Undefined, "nvapi"}
    /\ envPublicIp \in {Undefined, "1.2.3.4"}
    /\ (envHfToken = Undefined /\ envInstanceId = "")
           \/ (envNvidiaApiKey = Undefined /\ envPublicIp = Undefined)
    /\ envAdminPassword = Undefined
    /\ attempts = <<>>
    /\ lifecycleCalls = <<>>
    /\ describeResponse = None
    /\ statusResult = None
    /\ routeRequest = None
    /\ routeResponse = None
    /\ upstreamCalls = <<>>
    /\ cloudStream = <<>>
    /\ delivered = 0
    /\ received = <<>>
    /\ IdleRelay
    /\ IdleTitle
    /\ IdleCloud
    /\ IdlePoll
    /\ IdleChat

NextRoute ==
    \/ /\ routeRequest = None
       /\ \E endpoint \in {"route", "part_002"}, provider \in {"cloud", "local"},
             resp \in DescribeResponses :
              \E up \in RouteUpstreams(provider) :
                  ChatPOST(endpoint, provider, resp, up)
       /\ UNCHANGED exceptRoute
    \/ CloudChunk /\ UNCHANGED exceptRoute
    \/ CloudDone /\ UNCHANGED exceptRoute
    \/ CloudFail /\ UNCHANGED exceptRoute
    \/ \E n \in 1..Len(upstream) :
           /\ routeResponse /= None
           /\ ReadChunk(n)
           /\ UNCHANGED <<actionVars, routeVars>>
           /\ UNCHANGED exceptRoute
    \/ /\ routeResponse /= None
       /\ ReadDone
       /\ UNCHANGED <<actionVars, routeVars>>
       /\ UNCHANGED exceptRoute
    \/ /\ routeResponse /= None
       /\ ReadFail
       /\ UNCHANGED <<actionVars, routeVars>>
       /\ UNCHANGED exceptRoute
    \/ ConsumerRead /\ UNCHANGED exceptRoute
    \/ ConsumerCancel /\ UNCHANGED exceptRoute

SpecRoute == InitRoute /\ [][NextRoute]_vars

\* ---- the messages POST hands to the upstream of either provider

\* POST with provider "cloud": without HF_TOKEN the request is answered 500
\* before handleCloudChat; with it the messages are formatted and handed to
\* client.chat.completions.create
CloudChatRequest ==
    /\ cloudPc = "request"
    /\ IF envHfToken = Undefined \/ envHfToken = ""
       THEN /\ cloudPc' = "rejected"
            /\ UNCHANGED formattedMessages
       ELSE /\ cloudPc' = "created"
            /\ formattedMessages' = formatMessages(chatMessages)
    /\ UNCHANGED chatMessages

\* messages.map((m) => ({ role: m.role, content: m.content }))
localMessage_asReceived(m) == m

localMessage(m) == [role |-> m.role, content |-> m.content]

localMessages(messages) ==
    [i \in 1..Len(messages) |-> localMessage(messages[i])]

\* POST with any other provider: handleLocalChat answers 503 (or throws)
\* unless the instance runs with an address, and otherwise puts the mapped
\* messages in the body of its request to the local chat endpoint
LocalChatRequest(resp) ==
    /\ cloudPc = "request"
    /\ LET instStatus == getInstanceStatus(envInstanceId, resp) IN
       IF instStatus.kind = "throw" \/ unavailable(instStatus)
       THEN /\ cloudPc' = "rejected"
            /\ UNCHANGED formattedMessages
       ELSE /\ cloudPc' = "forwarded"
            /\ formattedMessages' = localMessages(chatMessages)
    /\ UNCHANGED chatMessages

InitCloud ==
    /\ chatMessages \in UNION { [1..n -> RequestMessages] : n \in 1..MaxTurns }
    /\ formattedMessages = <<>>
    /\ cloudPc = "request"
    /\ envAdminPassword = Undefined
    /\ envInstanceId \in {"", "i-0abc"}
    /\ envHfToken \in {Undefined, "hf_token"}
    /\ attempts = <<>>
    /\ lifecycleCalls = <<>>
    /\ describeResponse = None
    /\ statusResult = None
    /\ IdleRelay
    /\ IdleTitle
    /\ IdlePoll
    /\ IdleChat
    /\ IdleRoute

NextCloud ==
    \/ CloudChatRequest /\ UNCHANGED exceptCloud
    \/ \E resp \in TitleDescribes :
           LocalChatRequest(resp) /\ UNCHANGED exceptCloud

SpecCloud == InitCloud /\ [][NextCloud]_vars

\* ------------- Dashboard's status polling and toggle (dashboard.tsx:527-628)
\* ------------- with InstanceControl (part_000)

OllamaCountdownStart == 30

\* the states checkStatus reports to the dashboard: a transitional one, the
\* two stable ones, and "unknown" after a provider failure
PollStates == {"pending", "running", "stopped", "unknown"}

\* s.state === "running" || s.state === "stopped"
isStable(state) == state = "running" \/ state = "stopped"

\* InstanceControl: const isTransitioning = state !== "running" && state !== "stopped"
isTransitioning(state) == state /= "running" /\ state /= "stopped"

Query(kind) == [kind |-> kind, done |-> FALSE, result |-> "none"]

\* a query can still be issued; one slot is kept for the fetch that follows
\* a toggle in flight
CanIssue ==
    Len(queries) + (IF togglePc = "awaitToggle" THEN 1 ELSE 0) < MaxQueries

\* the polling effect on mount: fetchStatus() and setInterval(..., 5000)
Mount ==
    /\ ~mounted
    /\ mounted' = TRUE
    /\ queries' = Append(queries, Query("mount"))
    /\ UNCHANGED <<status, polling, loading, ollamaCountdown, prevStateRef,
                   applied, showPasswordPrompt, promptPassword, promptError,
                   togglePc, toggleLog>>

\* an interval callback that skips its query after a failed one
IntervalTick_backoff ==
    /\ mounted
    /\ CanIssue
    /\ status /= "unknown"
    /\ queries' = Append(queries, Query("tick"))
    /\ UNCHANGED <<mounted, status, polling, loading, ollamaCountdown,
                   prevStateRef, applied, showPasswordPrompt, promptPassword,
                   promptError, togglePc, toggleLog>>

\* the interval fires: the callback calls fetchStatus() and awaits it
IntervalTick ==
    /\ mounted
    /\ CanIssue
    /\ queries' = Append(queries, Query("tick"))
    /\ UNCHANGED <<mounted, status, polling, loading, ollamaCountdown,
                   prevStateRef, applied, showPasswordPrompt, promptPassword,
                   promptError, togglePc, toggleLog>>

\* the refresh button of InstanceControl (rendered once status is not null):
\* onRefresh = fetchStatus
Refresh ==
    /\ mounted
    /\ status /= "null"
    /\ CanIssue
    /\ queries' = Append(queries, Query("refresh"))
    /\ UNCHANGED <<mounted, status, polling, loading, ollamaCountdown,
                   prevStateRef, applied, showPasswordPrompt, promptPassword,
                   promptError, togglePc, toggleLog>>

\* setPolling after a status result: only the interval callback sets it
pollingAfter(kind, state) ==
    IF kind = "tick" THEN ~isStable(state) ELSE polling

\* checkStatus() of query i resolves with state s: fetchStatus does
\* setStatus(s), and returns s to its caller, which goes on:
\*   the interval callback sets polling, the countdown and prevStateRef;
\*   handleToggle returns the result, clears loading, and
\*   handleSubmitPassword closes the prompt
QueryResponds(i, s) ==
    /\ i \in 1..Len(queries)
    /\ ~queries[i].done
    /\ queries' = [queries EXCEPT ![i] = [@ EXCEPT !.done = TRUE, !.result = s]]
    /\ applied' = Append(applied, i)
    /\ status' = s
    /\ polling' = pollingAfter(queries[i].kind, s)
    /\ IF queries[i].kind = "tick"
       THEN /\ ollamaCountdown' =
                   IF s = "running" /\ prevStateRef /= "null"
                        /\ prevStateRef /= "running"
                   THEN OllamaCountdownStart ELSE ollamaCountdown
            /\ prevStateRef' = s
       ELSE UNCHANGED <<ollamaCountdown, prevStateRef>>
    /\ IF queries[i].kind = "toggle"
       THEN /\ loading' = FALSE
            /\ togglePc' = "idle"
            /\ showPasswordPrompt' = FALSE
            /\ promptPassword' = ""
       ELSE UNCHANGED <<loading, togglePc, showPasswordPrompt, promptPassword>>
    /\ UNCHANGED <<mounted, promptError, toggleLog>>

\* handleToggleClick: the Start/Stop button, disabled while loading or
\* transitioning, opens the password prompt
ToggleClick ==
    /\ status /= "null"
    /\ ~showPasswordPrompt
    /\ ~loading
    /\ ~isTransitioning(status)
    /\ promptPassword' = ""
    /\ promptError' = ""
    /\ showPasswordPrompt' = TRUE
    /\ UNCHANGED <<mounted, status, polling, loading, ollamaCountdown,
                   prevStateRef, queries, applied, togglePc, toggleLog>>

\* onChange of the password input
TypePassword(p) ==
    /\ status /= "null"
    /\ showPasswordPrompt
    /\ promptPassword /= p
    /\ promptPassword' = p
    /\ UNCHANGED <<mounted, status, polling, loading, ollamaCountdown,
                   prevStateRef, queries, applied, showPasswordPrompt,
                   promptError, togglePc, toggleLog>>

\* handleCancel
CancelPrompt ==
    /\ status /= "null"
    /\ showPasswordPrompt
    /\ showPasswordPrompt' = FALSE
    /\ promptPassword' = ""
    /\ promptError' = ""
    /\ UNCHANGED <<mounted, status, polling, loading, ollamaCountdown,
                   prevStateRef, queries, applied, togglePc, toggleLog>>

\* handleSubmitPassword up to its await: the submit button is disabled while
\* the password is blank or loading; handleToggle sets loading, picks the
\* action from the displayed state and calls toggleInstance
SubmitPassword ==
    /\ status /= "null"
    /\ showPasswordPrompt
    /\ promptPassword /= ""
    /\ ~loading
    /\ Len(toggleLog) < MaxToggles
    /\ Len(queries) < MaxQueries
    /\ promptError' = ""
    /\ loading' = TRUE
    /\ toggleLog' = Append(toggleLog,
           [action |-> IF status = "running" THEN "stop" ELSE "start",
            password |-> promptPassword, displayed |-> status])
    /\ togglePc' = "awaitToggle"
    /\ UNCHANGED <<mounted, status, polling, ollamaCountdown, prevStateRef,
                   queries, applied, showPasswordPrompt, promptPassword>>

\* toggleInstance resolves (or the call itself rejects: transport = FALSE).
\* On success handleToggle sets polling and awaits fetchStatus(); otherwise
\* it returns the failure, clears loading, and the prompt shows the error.
ToggleResponds(providerAccepts, transport) ==
    /\ togglePc = "awaitToggle"
    /\ LET req == toggleLog[Len(toggleLog)]
           r   == IF transport
                  THEN toggleInstance(envAdminPassword, envInstanceId,
                                      req.action, req.password, providerAccepts)
                  ELSE [success |-> FALSE, error |-> "Failed to toggle instance",
                        called |-> <<>>, outcome |-> "none"]
       IN IF r.success
          THEN /\ polling' = TRUE
               /\ queries' = Append(queries, Query("toggle"))
               /\ togglePc' = "awaitFetch"
               /\ UNCHANGED <<loading, promptError>>
          ELSE /\ loading' = FALSE
               /\ promptError' = r.error
               /\ togglePc' = "idle"
               /\ UNCHANGED <<polling, queries>>
    /\ UNCHANGED <<mounted, status, ollamaCountdown, prevStateRef, applied,
                   showPasswordPrompt, promptPassword, toggleLog>>

TypedPasswords == {"secret", "wrong"}

InitPoll ==
    /\ IdlePoll
    /\ envAdminPassword = "secret"
    /\ envInstanceId = "i-0abc"
    /\ envHfToken = Undefined
    /\ attempts = <<>>
    /\ lifecycleCalls = <<>>
    /\ describeResponse = None
    /\ statusResult = None
    /\ IdleRelay
    /\ IdleTitle
    /\ IdleCloud
    /\ IdleChat
    /\ IdleRoute

NextPoll ==
    \/ Mount /\ UNCHANGED exceptPoll
    \/ IntervalTick /\ UNCHANGED exceptPoll
    \/ Refresh /\ UNCHANGED exceptPoll
    \/ \E i \in 1..MaxQueries, s \in PollStates :
           QueryResponds(i, s) /\ UNCHANGED exceptPoll
    \/ ToggleClick /\ UNCHANGED exceptPoll
    \/ \E p \in TypedPasswords : TypePassword(p) /\ UNCHANGED exceptPoll
    \/ CancelPrompt /\ UNCHANGED exceptPoll
    \/ SubmitPassword /\ UNCHANGED exceptPoll
    \/ \E providerAccepts \in BOOLEAN, transport \in BOOLEAN :
           ToggleResponds(providerAccepts, transport) /\ UNCHANGED exceptPoll

SpecPoll == InitPoll /\ [][NextPoll]_vars

\* ---- the poll timer beside one chat request: the two run independently

\* one answer of each kind the upstream of a provider can give
FewUpstreams(provider) ==
    IF provider = "cloud"
    THEN {[kind |-> "throw"],
          [kind |-> "stream", events |-> <<[kind |-> "delta", content |-> <<"a">>]>>]}
    ELSE {[kind |-> "throw"], [kind |-> "notOk", status |-> 404],
          [kind |-> "noBody"], [kind |-> "body", body |-> <<"<", "a", ">", LF>>]}

InitTimerAndRelay ==
    /\ InitRoute
    /\ envInstanceId /= ""
    /\ envHfToken /= Undefined

NextTimerAndRelay ==
    \/ Mount /\ UNCHANGED exceptPoll
    \/ IntervalTick /\ UNCHANGED exceptPoll
    \/ \E i \in 1..MaxQueries, s \in PollStates :
           QueryResponds(i, s) /\ UNCHANGED exceptPoll
    \/ /\ routeRequest = None
       /\ \E provider \in {"cloud", "local"}, resp \in TitleDescribes :
              \E up \in FewUpstreams(provider) :
                  ChatPOST("route", provider, resp, up)
       /\ UNCHANGED exceptRoute

SpecTimerAndRelay == InitTimerAndRelay /\ [][NextTimerAndRelay]_vars

\* ---------------- Dashboard's chats (dashboard.tsx:61-211) and ChatInterface
\* ---------------- (chat-interface.tsx:327-508)

NewChatTitle == "New chat"

\* Date.now(): ids are the decimal strings of these numbers.  Handlers run
\* at least a millisecond apart, so every reading is later than the last one
\* and later than the last assistant id (Date.now() + 1) made from it.
Now == clock + 1

NewChat(id) == [id |-> id, title |-> NewChatTitle, messages |-> <<>>]

\* the chunk texts the reader of request r returns
ChunkText(r) == <<"r1", "r2", "r3", "r4", "r5">>[r]

ChunkTexts == {ChunkText(r) : r \in 1..MaxRequests}

HasChat(id) == \E c \in 1..Len(chats) : chats[c].id = id

ChatById(id) == chats[CHOOSE c \in 1..Len(chats) : chats[c].id = id]

\* messages.find((m) => m.role === "user")?.content, "" when there is none
firstUserContent(messages) ==
    IF \E i \in 1..Len(messages) : messages[i].role = "user"
    THEN messages[CHOOSE i \in 1..Len(messages) :
                      /\ messages[i].role = "user"
                      /\ \A j \in 1..(i - 1) : messages[j].role /= "user"].content
    ELSE <<>>

\* setActiveMessages((prev) => [...prev, m]) of the closure made for chat id
appendMessage(cs, id, m) ==
    [c \in 1..Len(cs) |->
        IF cs[c].id /= id THEN cs[c]
        ELSE [cs[c] EXCEPT !.messages = Append(@, m)]]

\* setActiveMessages((prev) => prev.map((m) => m.id === mid
\*     ? { ...m, content: m.content + chunk } : m)) of the closure for chat id
appendChunk(cs, id, mid, chunk) ==
    [c \in 1..Len(cs) |->
        IF cs[c].id /= id THEN cs[c]
        ELSE [cs[c] EXCEPT !.messages =
                 [k \in 1..Len(@) |->
                     IF @[k].id = mid
                     THEN [@[k] EXCEPT !.content = Append(@, chunk)]
                     ELSE @[k]]]]

\* setChats((prev) => prev.map((c) => c.id === id ? { ...c, title } : c))
setTitle(cs, id, title) ==
    [c \in 1..Len(cs) |->
        IF cs[c].id /= id THEN cs[c] ELSE [cs[c] EXCEPT !.title = title]]

\* <ChatInterface key={activeChat.id}>: a new active id unmounts the
\* instance and mounts a fresh one; the closures of the old one live on
Remount ==
    /\ input' = ""
    /\ isLoading' = FALSE
    /\ error' = FALSE
    /\ requests' = [r \in 1..Len(requests) |->
                       [requests[r] EXCEPT !.mounted = FALSE]]
    /\ pendingImages' = <<>>
    /\ uploads' = <<>>
    /\ UNCHANGED <<disabled, providerProp>>

\* onChange of the textarea
TypeInput ==
    /\ input = ""
    /\ input' = "hello"
    /\ UNCHANGED <<chats, activeChatId, clock, isLoading, error, requests,
                   chunksReceived>>

\* the texts typed into the textarea, and input.trim() of each
InputTexts == {"", " ", "hello"}

inputTrim(text) == IF text = " " THEN "" ELSE text

\* const hasContent = input.trim() || pendingImages.length > 0
hasContent(text, images) == inputTrim(text) /= "" \/ Len(images) > 0

\* a guard that forgets the disabled prop
refused_ignoresDisabled(text, images, busy, off) ==
    ~hasContent(text, images) \/ busy

\* if (!hasContent || isLoading || disabled) return
refused(text, images, busy, off) ==
    ~hasContent(text, images) \/ busy \/ off

\* images: pendingImages.length > 0 ? [...pendingImages] : undefined
userMessage(id, text, images) ==
    IF Len(images) > 0
    THEN [id |-> id, role |-> "user", content |-> <<text>>, images |-> images]
    ELSE [id |-> id, role |-> "user", content |-> <<text>>]

\* handleSubmit up to its await fetch("/api/chat")
Submit ==
    /\ ~refused(input, pendingImages, isLoading, disabled)
    /\ Len(requests) < MaxRequests
    /\ clock < MaxClock
    /\ HasChat(activeChatId)
    /\ clock' = Now
    /\ chats' = appendMessage(chats, activeChatId,
                    userMessage(Now, input, pendingImages))
    /\ input' = ""
    /\ pendingImages' = <<>>
    /\ UNCHANGED <<uploads, disabled, providerProp>>
    /\ isLoading' = TRUE
    /\ error' = FALSE
    /\ requests' = Append(requests,
           [chatId |-> activeChatId, mounted |-> TRUE, phase |-> "fetch",
            assistantId |-> 0, chunks |-> 0,
            snapTitle |-> ChatById(activeChatId).title,
            snapFirstUser |-> firstUserContent(ChatById(activeChatId).messages),
            titlePhase |-> "none"])
    /\ UNCHANGED <<activeChatId, chunksReceived>>

\* the catch block without the finally block
FailRequest_noFinally(r) ==
    /\ requests' = [requests EXCEPT ![r].phase = "failed"]
    /\ IF requests[r].mounted
       THEN error' = TRUE /\ UNCHANGED isLoading
       ELSE UNCHANGED <<error, isLoading>>

\* catch (err) { setError(...) } finally { setIsLoading(false) }: the state
\* setters of an unmounted instance do nothing
FailRequest(r) ==
    /\ requests' = [requests EXCEPT ![r].phase = "failed"]
    /\ IF requests[r].mounted
       THEN error' = TRUE /\ isLoading' = FALSE
       ELSE UNCHANGED <<error, isLoading>>

\* fetch resolves: a non-ok response throws; otherwise the assistant message
\* is created with id Date.now() + 1 and appended
ResponseArrives(r, ok) ==
    /\ r \in 1..Len(requests)
    /\ requests[r].phase = "fetch"
    /\ clock < MaxClock
    /\ IF ok
       THEN /\ clock' = Now + 1
            /\ chats' = appendMessage(chats, requests[r].chatId,
                   [id |-> Now + 1, role |-> "assistant", content |-> <<>>])
            /\ requests' = [requests EXCEPT ![r].phase = "stream",
                                            ![r].assistantId = Now + 1]
            /\ UNCHANGED <<error, isLoading>>
       ELSE /\ FailRequest(r)
            /\ UNCHANGED <<clock, chats>>
    /\ UNCHANGED <<activeChatId, input, chunksReceived>>

\* reader.read() returns a chunk: it is appended to the message with the
\* assistant id, in the chat of the closure
ChunkArrives(r) ==
    /\ r \in 1..Len(requests)
    /\ requests[r].phase = "stream"
    /\ requests[r].chunks < MaxChunks
    /\ chats' = appendChunk(chats, requests[r].chatId, requests[r].assistantId,
                            ChunkText(r))
    /\ requests' = [requests EXCEPT ![r].chunks = @ + 1]
    /\ chunksReceived' = chunksReceived + 1
    /\ UNCHANGED <<activeChatId, clock, input, isLoading, error>>

\* reader.read() returns done: onResponseComplete?.() is called (not awaited)
\* and finally clears isLoading.  handleResponseComplete, with the chats of
\* the render that made this handleSubmit, asks for a title when that chat
\* was still titled "New chat" and had a user message.
StreamDone(r) ==
    /\ r \in 1..Len(requests)
    /\ requests[r].phase = "stream"
    /\ requests' = [requests EXCEPT
           ![r].phase = "done",
           ![r].titlePhase =
               IF requests[r].snapTitle = NewChatTitle
                    /\ requests[r].snapFirstUser /= <<>>
               THEN "inflight" ELSE "none"]
    /\ IF requests[r].mounted
       THEN isLoading' = FALSE
       ELSE UNCHANGED isLoading
    /\ UNCHANGED <<chats, activeChatId, clock, input, error, chunksReceived>>

\* reader.read() rejects
StreamError(r) ==
    /\ r \in 1..Len(requests)
    /\ requests[r].phase = "stream"
    /\ FailRequest(r)
    /\ UNCHANGED <<chats, activeChatId, clock, input, chunksReceived>>

\* the fetch of /api/title settles: a title, an empty title, or a throw
\* (then the first 30 characters of the first user message are the title)
TitleResponds(r, outcome) ==
    /\ r \in 1..Len(requests)
    /\ requests[r].titlePhase = "inflight"
    /\ requests' = [requests EXCEPT ![r].titlePhase = "done"]
    /\ chats' = CASE outcome = "title" ->
                       setTitle(chats, requests[r].chatId, "generated title")
                  [] outcome = "empty" -> chats
                  [] outcome = "throw" ->
                       setTitle(chats, requests[r].chatId, "fallback title")
    /\ UNCHANGED <<activeChatId, clock, input, isLoading, error,
                   chunksReceived>>

\* onClick of a chat in the sidebar
SelectChat(id) ==
    /\ HasChat(id)
    /\ id /= activeChatId
    /\ activeChatId' = id
    /\ Remount
    /\ UNCHANGED <<chats, clock, chunksReceived>>

\* handleNewChat
HandleNewChat ==
    /\ clock < MaxClock
    /\ Len(chats) < MaxChats
    /\ clock' = Now
    /\ chats' = <<NewChat(Now)>> \o chats
    /\ activeChatId' = Now
    /\ Remount
    /\ UNCHANGED chunksReceived

\* handleDeleteChat without the reselection of its updater
HandleDeleteChat_keepActive(id) ==
    /\ HasChat(id)
    /\ chats' = SelectSeq(chats, LAMBDA c : c.id /= id)
    /\ UNCHANGED <<activeChatId, clock, input, isLoading, error, requests>>
    /\ UNCHANGED <<chunksReceived, composerVars>>

\* handleDeleteChat(chatId)
HandleDeleteChat(id) ==
    /\ HasChat(id)
    /\ LET filtered == SelectSeq(chats, LAMBDA c : c.id /= id) IN
       IF activeChatId /= id
       THEN /\ chats' = filtered
            /\ UNCHANGED <<activeChatId, clock, input, isLoading, error,
                           requests, composerVars>>
       ELSE IF filtered /= <<>>
       THEN /\ chats' = filtered
            /\ activeChatId' = filtered[1].id
            /\ Remount
            /\ UNCHANGED clock
       ELSE /\ clock < MaxClock
            /\ clock' = Now
            /\ chats' = <<NewChat(Now)>>
            /\ activeChatId' = Now
            /\ Remount
    /\ UNCHANGED chunksReceived

\* What localStorage may hold when the page loads: nothing, or the session of
\* an earlier visit with one finished exchange (its title as that visit left
\* it).
StoredChats ==
    { <<>>,
      <<[id |-> 1, title |-> NewChatTitle,
         messages |-> <<[id |-> 2, role |-> "user", content |-> <<"hello">>],
                        [id |-> 3, role |-> "assistant",
                         content |-> <<"r0">>]>>]>> }

\* after the load effect: the stored chats with the first one active, or one
\* fresh chat when there are none
InitChat ==
    /\ \E loaded \in StoredChats :
           IF loaded /= <<>>
           THEN /\ clock = 3
                /\ chats = loaded
                /\ activeChatId = loaded[1].id
           ELSE /\ clock = 1
                /\ chats = <<NewChat(1)>>
                /\ activeChatId = 1
    /\ input = ""
    /\ isLoading = FALSE
    /\ error = FALSE
    /\ requests = <<>>
    /\ chunksReceived = 0
    /\ pendingImages = <<>>
    /\ uploads = <<>>
    /\ disabled = FALSE
    /\ providerProp = "cloud"
    /\ IdleActions
    /\ IdleRelay
    /\ IdleTitle
    /\ IdleCloud
    /\ IdlePoll
    /\ IdleRoute

NextChat ==
    \/ TypeInput /\ UNCHANGED <<composerVars, exceptChat>>
    \/ Submit /\ UNCHANGED exceptChat
    \/ \E r \in 1..MaxRequests, ok \in BOOLEAN :
           ResponseArrives(r, ok) /\ UNCHANGED <<composerVars, exceptChat>>
    \/ \E r \in 1..MaxRequests :
           ChunkArrives(r) /\ UNCHANGED <<composerVars, exceptChat>>
    \/ \E r \in 1..MaxRequests :
           StreamDone(r) /\ UNCHANGED <<composerVars, exceptChat>>
    \/ \E r \in 1..MaxRequests :
           StreamError(r) /\ UNCHANGED <<composerVars, exceptChat>>
    \/ \E r \in 1..MaxRequests, outcome \in {"title", "empty", "throw"} :
           TitleResponds(r, outcome) /\ UNCHANGED <<composerVars, exceptChat>>
    \/ \E id \in 1..MaxClock : SelectChat(id) /\ UNCHANGED exceptChat
    \/ HandleNewChat /\ UNCHANGED exceptChat
    \/ \E id \in 1..MaxClock : HandleDeleteChat(id) /\ UNCHANGED exceptChat

SpecChat == InitChat /\ [][NextChat]_vars

\* ---- the composer of one ChatInterface instance: text, pending images and
\* ---- submits (chat-interface.tsx:392-508)

\* "Limit to 4 images total"
MaxPendingImages == 4

\* the files of a picker change, a paste or a drop: up to MaxFiles images,
\* or a file that is no image, alone or before an image
imageRun(n) == [i \in 1..n |-> IF i % 2 = 1 THEN "img1" ELSE "img2"]

FileLists ==
    { imageRun(n) : n \in 1..MaxFiles }
        \cup { <<"doc">> \o imageRun(n) : n \in 0..1 }

\* f.type.startsWith("image/")
isImage(file) == file \in Images

\* [...prev, ...newImages] without the slice
addImages_noSlice(prev, newImages) == prev \o newImages

\* [...prev, ...newImages].slice(0, 4)
addImages(prev, newImages) ==
    LET all == prev \o newImages IN
    SubSeq(all, 1, IF Len(all) < MaxPendingImages THEN Len(all)
                   ELSE MaxPendingImages)

\* if (pendingImages.length + newImages.length >= 4) break, with the
\* pendingImages of the render that made the call; the loop also ends when
\* the files are used up
loopEnds(seen, files, newImages) ==
    files = <<>> \/ seen + Len(newImages) >= MaxPendingImages

\* onChange of the textarea, which is disabled while loading or disabled
TypeText(t) ==
    /\ ~isLoading
    /\ ~disabled
    /\ t /= input
    /\ input' = t
    /\ UNCHANGED <<chats, activeChatId, clock, isLoading, error, requests,
                   chunksReceived, composerVars>>

\* handleImageUpload(files) up to its first await, called by the file
\* picker (its button is disabled while loading, disabled or at 4 images), a
\* paste into the textarea or a drop; all three need provider "cloud"
StartUpload(via, files) ==
    /\ Len(uploads) < MaxUploads
    /\ providerProp = "cloud"
    /\ via = "picker" =>
           ~isLoading /\ ~disabled /\ Len(pendingImages) < MaxPendingImages
    /\ via = "paste" => ~isLoading /\ ~disabled
    /\ LET imageFiles == SelectSeq(files, isImage)
           seen == Len(pendingImages)
       IN  IF imageFiles = <<>>
           THEN /\ uploads' = Append(uploads,
                       [seen |-> seen, files |-> <<>>,
                        newImages |-> <<>>, state |-> "returned"])
                /\ UNCHANGED pendingImages
           ELSE IF loopEnds(seen, imageFiles, <<>>)
           THEN /\ uploads' = Append(uploads,
                       [seen |-> seen, files |-> <<>>,
                        newImages |-> <<>>, state |-> "done"])
                /\ pendingImages' = addImages(pendingImages, <<>>)
           ELSE /\ uploads' = Append(uploads,
                       [seen |-> seen, files |-> imageFiles,
                        newImages |-> <<>>, state |-> "reading"])
                /\ UNCHANGED pendingImages
    /\ UNCHANGED <<chats, activeChatId, clock, input, isLoading, error,
                   requests, chunksReceived, disabled, providerProp>>

\* fileToBase64 of upload u resolves: the image is pushed, and when the loop
\* ends setPendingImages((prev) => [...prev, ...newImages].slice(0, 4)) runs
FileRead(u) ==
    /\ u \in 1..Len(uploads)
    /\ uploads[u].state = "reading"
    /\ LET newImages == Append(uploads[u].newImages, Head(uploads[u].files))
           files == Tail(uploads[u].files)
       IN  IF loopEnds(uploads[u].seen, files, newImages)
           THEN /\ uploads' = [uploads EXCEPT ![u].newImages = newImages,
                                              ![u].files = <<>>,
                                              ![u].state = "done"]
                /\ pendingImages' = addImages(pendingImages, newImages)
           ELSE /\ uploads' = [uploads EXCEPT ![u].newImages = newImages,
                                              ![u].files = files]
                /\ UNCHANGED pendingImages
    /\ UNCHANGED <<chats, activeChatId, clock, input, isLoading, error,
                   requests, chunksReceived, disabled, providerProp>>

\* fileToBase64 of upload u rejects (reader.onerror): handleImageUpload
\* rejects and sets nothing
FileReadFails(u) ==
    /\ u \in 1..Len(uploads)
    /\ uploads[u].state = "reading"
    /\ uploads' = [uploads EXCEPT ![u].state = "failed"]
    /\ UNCHANGED <<chats, activeChatId, clock, input, isLoading, error,
                   requests, chunksReceived, pendingImages, disabled,
                   providerProp>>

\* removePendingImage(index): prev.filter((_, i) => i !== index)
removePendingImage(k) ==
    /\ k \in 1..Len(pendingImages)
    /\ pendingImages' =
           SubSeq(pendingImages, 1, k - 1)
               \o SubSeq(pendingImages, k + 1, Len(pendingImages))
    /\ UNCHANGED <<chats, activeChatId, clock, input, isLoading, error,
                   requests, chunksReceived, uploads, disabled, providerProp>>

\* one mounted ChatInterface of a fresh session, with either value of its
\* props
InitComposer ==
    /\ clock = 1
    /\ chats = <<NewChat(1)>>
    /\ activeChatId = 1
    /\ input = ""
    /\ isLoading = FALSE
    /\ error = FALSE
    /\ requests = <<>>
    /\ chunksReceived = 0
    /\ pendingImages = <<>>
    /\ uploads = <<>>
    /\ disabled \in BOOLEAN
    /\ providerProp \in {"cloud", "local"}
    /\ IdleActions
    /\ IdleRelay
    /\ IdleTitle
    /\ IdleCloud
    /\ IdlePoll
    /\ IdleRoute

NextComposer ==
    \/ \E t \in InputTexts : TypeText(t) /\ UNCHANGED exceptChat
    \/ \E via \in {"picker", "paste", "drop"}, files \in FileLists :
           StartUpload(via, files) /\ UNCHANGED exceptChat
    \/ \E u \in 1..MaxUploads : FileRead(u) /\ UNCHANGED exceptChat
    \/ \E u \in 1..MaxUploads : FileReadFails(u) /\ UNCHANGED exceptChat
    \/ \E k \in 1..MaxPendingImages :
           removePendingImage(k) /\ UNCHANGED exceptChat
    \/ Submit /\ UNCHANGED exceptChat
    \/ \E r \in 1..MaxRequests, ok \in BOOLEAN :
           ResponseArrives(r, ok) /\ UNCHANGED <<composerVars, exceptChat>>
    \/ \E r \in 1..MaxRequests :
           StreamDone(r) /\ UNCHANGED <<composerVars, exceptChat>>
    \/ \E r \in 1..MaxRequests :
           StreamError(r) /\ UNCHANGED <<composerVars, exceptChat>>

SpecComposer == InitComposer /\ [][NextComposer]_vars

\* ---- the composer beside the instance toggle, every call answered in the
\* ---- end: the response of a chat request arrives, every read of its body
\* ---- resolves, toggleInstance and checkStatus resolve

ResponseSettles ==
    \E r \in 1..MaxRequests, ok \in BOOLEAN :
        ResponseArrives(r, ok) /\ UNCHANGED <<composerVars, exceptChat>>

ReadResolves ==
    \E r \in 1..MaxRequests :
        (ChunkArrives(r) \/ StreamDone(r) \/ StreamError(r))
            /\ UNCHANGED <<composerVars, exceptChat>>

ToggleSettles ==
    \E providerAccepts \in BOOLEAN, transport \in BOOLEAN :
        ToggleResponds(providerAccepts, transport) /\ UNCHANGED exceptPoll

QuerySettles ==
    \E i \in 1..MaxQueries, s \in PollStates :
        QueryResponds(i, s) /\ UNCHANGED exceptPoll

InitSettling ==
    /\ clock = 1
    /\ chats = <<NewChat(1)>>
    /\ activeChatId = 1
    /\ input = ""
    /\ isLoading = FALSE
    /\ error = FALSE
    /\ requests = <<>>
    /\ chunksReceived = 0
    /\ pendingImages = <<>>
    /\ uploads = <<>>
    /\ disabled \in BOOLEAN
    /\ providerProp = "cloud"
    /\ IdlePoll
    /\ envAdminPassword = "secret"
    /\ envInstanceId = "i-0abc"
    /\ envHfToken = Undefined
    /\ attempts = <<>>
    /\ lifecycleCalls = <<>>
    /\ describeResponse = None
    /\ statusResult = None
    /\ IdleRelay
    /\ IdleTitle
    /\ IdleCloud
    /\ IdleRoute

NextSettling ==
    \/ \E t \in InputTexts : TypeText(t) /\ UNCHANGED exceptChat
    \/ StartUpload("drop", imageRun(1)) /\ UNCHANGED exceptChat
    \/ \E u \in 1..MaxUploads : FileRead(u) /\ UNCHANGED exceptChat
    \/ Submit /\ UNCHANGED exceptChat
    \/ ResponseSettles
    \/ ReadResolves
    \/ Mount /\ UNCHANGED exceptPoll
    \/ QuerySettles
    \/ ToggleClick /\ UNCHANGED exceptPoll
    \/ TypePassword("secret") /\ UNCHANGED exceptPoll
    \/ SubmitPassword /\ UNCHANGED exceptPoll
    \/ ToggleSettles

SpecSettling ==
    /\ InitSettling
    /\ [][NextSettling]_vars
    /\ WF_vars(ResponseSettles)
    /\ WF_vars(ReadResolves)
    /\ WF_vars(ToggleSettles)
    /\ WF_vars(QuerySettles)

\* the sidebar alone: the user only creates, selects and deletes sessions
NextSessions ==
    \/ \E id \in 1..MaxClock : SelectChat(id) /\ UNCHANGED exceptChat
    \/ HandleNewChat /\ UNCHANGED exceptChat
    \/ \E id \in 1..MaxClock : HandleDeleteChat(id) /\ UNCHANGED exceptChat

SpecSessions == InitChat /\ [][NextSessions]_vars

\* ------------------------------------------------ claims on the local relay

\* the body as text, and its lines
BodyText(b) == decode(<<>>, b).chars

BodyLinesOf(b) == split(BodyText(b))

\* every line of the body is blank or a JSON value
WellFormedBody(b) ==
    \A i \in 1..Len(BodyLinesOf(b)) :
        \/ trim(BodyLinesOf(b)[i]) = <<>>
        \/ JSONparse(BodyLinesOf(b)[i]).kind /= "throw"

\* what the stream enqueues when the whole body arrives in a single read
OneRead(b) ==
    LET lines == split(decode(<<>>, b).chars)
    IN  EmitLines(Front(lines)) \o finalBuffer(popBuffer(lines))

RelayCompleted == relayPc = "done" /\ ~upstreamFailed

\* C1: chunking-invariance. For a well-formed newline-delimited body, however
\* the bytes were split into reads, the completed stream has enqueued exactly
\* the fragments that a single read of the whole body enqueues: the same
\* fragments, in the same order, the same number of them.
C1_ChunkingInvariance ==
    (RelayCompleted /\ WellFormedBody(responseBody)) => enqueued = OneRead(responseBody)

\* a well-formed body of several fragments, read in pieces that cut a line
C1_Witness ==
    /\ RelayCompleted
    /\ WellFormedBody(responseBody)
    /\ midLine
    /\ Len(enqueued) >= 2
    /\ enqueued = OneRead(responseBody)

\* the last line of the body has no newline after it and carries a fragment
UnterminatedFragment(b) ==
    LET last == Last(BodyLinesOf(b))
    IN  /\ JSONparse(last).kind = "object"
        /\ JSONparse(last).content /= <<>>

\* C2: when the body ends with a line that has no terminating newline, that
\* leftover is parsed at stream end and its fragment is enqueued exactly once,
\* after the fragments of all earlier lines.
C2_TrailingLineOnce ==
    (RelayCompleted /\ UnterminatedFragment(responseBody)) =>
        enqueued = EmitLines(Front(BodyLinesOf(responseBody)))
                     \o <<JSONparse(Last(BodyLinesOf(responseBody))).content>>

C2_Witness ==
    /\ RelayCompleted
    /\ UnterminatedFragment(responseBody)
    /\ Len(BodyLinesOf(responseBody)) >= 2
    /\ Len(enqueued) >= 2
    /\ Last(enqueued) = JSONparse(Last(BodyLinesOf(responseBody))).content

\* the fragments of the lines that hold a JSON object with a non-empty content
RECURSIVE ValidFragments(_)
ValidFragments(lines) ==
    IF lines = <<>> THEN <<>>
    ELSE (IF /\ JSONparse(Head(lines)).kind = "object"
             /\ JSONparse(Head(lines)).content /= <<>>
          THEN <<JSONparse(Head(lines)).content>>
          ELSE <<>>)
         \o ValidFragments(Tail(lines))

\* some line (or the final leftover) is not blank and fails to parse
HasMalformedLine(b) ==
    \E i \in 1..Len(BodyLinesOf(b)) :
        /\ trim(BodyLinesOf(b)[i]) /= <<>>
        /\ JSONparse(BodyLinesOf(b)[i]).kind = "throw"

\* C3: a line, or the final leftover buffer, that fails to parse as JSON emits
\* nothing and does not put the outbound stream into the error state: the
\* stream is errored only when the upstream read failed, and a stream whose
\* upstream ended closes normally having enqueued the fragment of every valid
\* line, those after a malformed line included.
C3_MalformedLineSkipped ==
    /\ streamState = "errored" => upstreamFailed
    /\ (RelayCompleted /\ HasMalformedLine(responseBody)) =>
           /\ streamState = "closed"
           /\ enqueued = ValidFragments(BodyLinesOf(responseBody))

\* a malformed first line, a valid line after it, the stream closed
C3_Witness ==
    /\ RelayCompleted
    /\ Len(BodyLinesOf(responseBody)) >= 2
    /\ trim(BodyLinesOf(responseBody)[1]) /= <<>>
    /\ JSONparse(BodyLinesOf(responseBody)[1]).kind = "throw"
    /\ ValidFragments(Tail(BodyLinesOf(responseBody))) /= <<>>
    /\ enqueued = ValidFragments(Tail(BodyLinesOf(responseBody)))
    /\ streamState = "closed"

\* ---------------------------------------------- claims on the server actions

\* the password of an attempt is not exactly the configured secret, or no
\* secret is configured
WrongPassword(a) ==
    \/ envAdminPassword \in {Undefined, ""}
    \/ a.password /= envAdminPassword

\* C4: a toggleInstance call whose password is not exactly equal to the
\* configured admin secret (or made when no secret is configured) never calls
\* startInstance or stopInstance and returns success:false, for both actions
\* and at any place in a sequence of attempts.
C4_WrongPasswordNoCall ==
    \A i \in 1..Len(attempts) :
        WrongPassword(attempts[i]) =>
            /\ attempts[i].success = FALSE
            /\ \A k \in 1..Len(lifecycleCalls) : lifecycleCalls[k].attempt /= i

\* a wrong password after an accepted one, with a secret configured
C4_Witness ==
    /\ envAdminPassword = "secret"
    /\ Len(attempts) >= 2
    /\ ~WrongPassword(attempts[1])
    /\ WrongPassword(attempts[2])
    /\ attempts[2].password /= ""
    /\ Len(lifecycleCalls) = 1
    /\ attempts[2].success = FALSE

\* the lifecycle calls made by attempt i
CallsOf(i) == {k \in 1..Len(lifecycleCalls) : lifecycleCalls[k].attempt = i}

\* C19: toggleInstance with the correct secret calls exactly one lifecycle
\* function, the one of the action (startInstance for start, stopInstance for
\* stop); it returns success:true exactly when that call succeeds, and when
\* the call throws it returns success:false with one constant reason.
C19_ToggleCallsOnce ==
    \A i \in 1..Len(attempts) :
        ~WrongPassword(attempts[i]) =>
            /\ Cardinality(CallsOf(i)) = 1
            /\ \A k \in CallsOf(i) :
                   /\ lifecycleCalls[k].fn =
                          (IF attempts[i].action = "start"
                           THEN "startInstance" ELSE "stopInstance")
                   /\ attempts[i].success <=> lifecycleCalls[k].outcome = "ok"
                   /\ lifecycleCalls[k].outcome = "throw" =>
                          attempts[i].error = "Failed to perform action"

\* an accepted start that the provider carried out, then an accepted stop
\* that the provider rejected
C19_Witness ==
    /\ envInstanceId /= ""
    /\ Len(attempts) >= 2
    /\ ~WrongPassword(attempts[1])
    /\ ~WrongPassword(attempts[2])
    /\ attempts[1].action = "start"
    /\ attempts[1].success
    /\ attempts[2].action = "stop"
    /\ ~attempts[2].success
    /\ attempts[2].error = "Failed to perform action"
    /\ Len(lifecycleCalls) = 2
    /\ lifecycleCalls[2].fn = "stopInstance"

\* the lifecycle call of checkStatus threw (a missing instance id included) or
\* reported no matching instance
ProviderFailed ==
    \/ envInstanceId = ""
    \/ describeResponse.kind \in {"throw", "empty"}

\* C5: checkStatus never raises. When the lifecycle call throws (without an
\* instance id too) or reports no matching instance the result is state
\* "unknown" with a null address; otherwise it is the provider's state
\* ("unknown" when the provider names none) and the provider's address (null
\* when it has none).
C5_CheckStatusNeverRaises ==
    statusResult /= None =>
        /\ statusResult.kind = "return"
        /\ ProviderFailed =>
               statusResult.state = "unknown" /\ statusResult.publicIp = Null
        /\ ~ProviderFailed =>
               /\ statusResult.state =
                      IF describeResponse.name = Undefined
                      THEN "unknown" ELSE describeResponse.name
               /\ statusResult.publicIp =
                      IF describeResponse.address = Undefined
                      THEN Null ELSE describeResponse.address

\* the provider's send threw and checkStatus returned "unknown"
C5_Witness ==
    /\ statusResult /= None
    /\ envInstanceId /= ""
    /\ describeResponse.kind = "throw"
    /\ statusResult.kind = "return"
    /\ statusResult.state = "unknown"

\* --------------------------------------------- claims on the title endpoint

\* the request reached its upstream: the credential is there (cloud), the
\* instance runs with an address (local)
TitleUpstreamReached(req) ==
    IF req.endpoint = "title/route.ts" /\ req.provider = "cloud"
    THEN envHfToken /= Undefined
    ELSE /\ envInstanceId /= ""
         /\ req.describe.kind = "instance"
         /\ req.describe.name = "running"
         /\ req.describe.address /= Undefined

\* C6: for either provider, an upstream title text made of a complete
\* <think>...</think> section followed by a quoted title, or of a quoted title
\* followed by an unterminated <think> section, comes back as the title with
\* the think section and both quotes removed.
C6_TitleCleaned ==
    ( /\ titleResponse /= None
      /\ TitleUpstreamReached(titleRequest)
      /\ titleRequest.upstream.kind = "ok"
      /\ titleRequest.upstream.text \in {ThinkThenQuoted, QuotedThenOpenThink} )
    => /\ titleResponse.kind = "json"
       /\ titleResponse.title = QuicksortExplained

\* the same for the local provider alone
C6_TitleCleanedLocal ==
    ( /\ titleResponse /= None
      /\ ~(titleRequest.endpoint = "title/route.ts"
             /\ titleRequest.provider = "cloud")
      /\ TitleUpstreamReached(titleRequest)
      /\ titleRequest.upstream.kind = "ok"
      /\ titleRequest.upstream.text \in {ThinkThenQuoted, QuotedThenOpenThink} )
    => /\ titleResponse.kind = "json"
       /\ titleResponse.title = QuicksortExplained

\* the upstream work of the request failed
TitleUpstreamFailed(req) ==
    IF req.endpoint = "title/route.ts" /\ req.provider = "cloud"
    THEN \/ envHfToken = Undefined
         \/ req.upstream.kind /= "ok"
    ELSE \/ ~TitleUpstreamReached(req)
         \/ req.upstream.kind /= "ok"

\* C7: for every provider and every failure of the upstream work (the
\* lifecycle query throws, the instance is not running, the credential is
\* missing, the upstream request throws or answers without success) the
\* endpoint responds with the first 40 characters of the message as title
\* and does not propagate the failure.
C7_TitleFallback ==
    (titleResponse /= None /\ TitleUpstreamFailed(titleRequest)) =>
        /\ titleResponse.kind = "json"
        /\ titleResponse.title = slice(titleRequest.message, FallbackLen)

\* the upstream of the request was reached and answered with this text
TitleUpstreamAnswered(text) ==
    /\ TitleUpstreamReached(titleRequest)
    /\ titleRequest.upstream.kind = "ok"
    /\ titleRequest.upstream.text = text

\* C20: every title the endpoint returns has at most 50 characters: a cleaned
\* title longer than 50 comes back as its first 47 characters followed by
\* "...", one of at most 50 comes back unchanged, and a fallback title (after
\* a failure or an empty answer) has at most 40 characters.
C20_TitleLength ==
    (titleResponse /= None /\ titleResponse.kind = "json") =>
        /\ Len(titleResponse.title) <= MaxTitleLen
        /\ TitleUpstreamAnswered(LongTitle) =>
               titleResponse.title =
                   SubSeq(LongTitle, 1, TruncatedLen) \o <<".", ".", ".">>
        /\ TitleUpstreamAnswered(TitleAtLimit) =>
               titleResponse.title = TitleAtLimit
        /\ TitleUpstreamAnswered(QuicksortExplained) =>
               titleResponse.title = QuicksortExplained
        /\ (TitleUpstreamFailed(titleRequest) \/ TitleUpstreamAnswered(<<>>)) =>
               Len(titleResponse.title) <= FallbackLen

\* a title of 55 characters came back with 50, the last three of them dots
C20_Witness ==
    /\ titleResponse /= None
    /\ titleResponse.kind = "json"
    /\ TitleUpstreamAnswered(LongTitle)
    /\ Len(titleResponse.title) = MaxTitleLen
    /\ SubSeq(titleResponse.title, TruncatedLen + 1, MaxTitleLen)
           = <<".", ".", ".">>

\* ------------------------------------------ claims on the cloud translation

\* the turn carries n >= 1 images and is a user turn
UserTurnWithImages(m) == m.role = "user" /\ m.hasImages /\ Len(m.images) >= 1

\* C8: in the messages handed to the cloud upstream, a user turn with n >= 1
\* images is a structured list of exactly n + 1 parts, the n image references
\* in their original order and then one text part holding the turn's text,
\* or "Describe this image." when the text is empty; every other turn keeps
\* its plain string content; roles, count and order of turns are preserved.
C8_CloudTranslation ==
    cloudPc = "created" =>
        /\ Len(formattedMessages) = Len(chatMessages)
        /\ \A i \in 1..Len(chatMessages) :
            LET m == chatMessages[i]
                f == formattedMessages[i]
                n == Len(m.images)
            IN  /\ f.role = m.role
                /\ UserTurnWithImages(m) =>
                       /\ f.kind = "parts"
                       /\ Len(f.parts) = n + 1
                       /\ \A k \in 1..n :
                              /\ f.parts[k].type = "image_url"
                              /\ f.parts[k].url = m.images[k]
                       /\ f.parts[n + 1].type = "text"
                       /\ f.parts[n + 1].text =
                              IF m.content /= "" THEN m.content
                              ELSE "Describe this image."
                /\ ~UserTurnWithImages(m) =>
                       f.kind = "string" /\ f.text = m.content

\* a user turn with two images and no text became image, image, text, next
\* to an assistant turn with images that stayed a plain string
C8_Witness ==
    /\ cloudPc = "created"
    /\ Len(chatMessages) = 2
    /\ chatMessages[1].role = "assistant"
    /\ chatMessages[1].hasImages /\ Len(chatMessages[1].images) = 1
    /\ formattedMessages[1].kind = "string"
    /\ chatMessages[2] = [role |-> "user", content |-> "", hasImages |-> TRUE,
                          images |-> <<"img2", "img1">>]
    /\ formattedMessages[2].parts =
           <<ImagePart("img2"), ImagePart("img1"),
             TextPart("Describe this image.")>>

\* C23: for provider local the body sent to the local chat endpoint holds
\* one message per input turn, in the same order, each with that turn's role
\* and content and nothing else: no image attachment is forwarded.
C23_LocalForwardsRoleAndContent ==
    cloudPc = "forwarded" =>
        /\ Len(formattedMessages) = Len(chatMessages)
        /\ \A i \in 1..Len(chatMessages) :
               /\ DOMAIN formattedMessages[i] = {"role", "content"}
               /\ formattedMessages[i].role = chatMessages[i].role
               /\ formattedMessages[i].content = chatMessages[i].content

\* two turns were forwarded, the first a user turn that carried two images
C23_Witness ==
    /\ cloudPc = "forwarded"
    /\ Len(chatMessages) = 2
    /\ chatMessages[1].role = "user"
    /\ Len(chatMessages[1].images) = 2
    /\ chatMessages[2].role = "assistant"
    /\ formattedMessages[1] = [role |-> "user", content |-> "hello"]

\* ----------------------------------------- claims on the status polling

\* the results of the first n queries issued were applied in order of issue
\* and nothing else was
AppliedInOrder(n) ==
    /\ Len(applied) = n
    /\ \A i \in 1..n : applied[i] = i

\* C9: when the dashboard's status queries, counted from the first one it
\* issues, return pending, pending, running (and running after that), the
\* polling indicator is active after the first and after the second result
\* and inactive after the third and later ones.  No toggle is involved.
C9_PollLiveness ==
    toggleLog = <<>> =>
        /\ (AppliedInOrder(1) /\ queries[1].result = "pending") => polling
        /\ ( /\ AppliedInOrder(2)
             /\ queries[1].result = "pending"
             /\ queries[2].result = "pending" ) => polling
        /\ ( /\ Len(applied) >= 3
             /\ AppliedInOrder(Len(applied))
             /\ queries[1].result = "pending"
             /\ queries[2].result = "pending"
             /\ \A i \in 3..Len(applied) : queries[i].result = "running" )
           => ~polling

\* the chat requests the relay has sent upstream
ChatRequestsSent ==
    {i \in 1..Len(upstreamCalls) :
         upstreamCalls[i] \in {"fetch ollama", "completions.create"}}

\* C21: nothing is retried and the polling never backs off: while the
\* dashboard is mounted a timer tick issues its status query whatever the
\* previous result was, each step issues at most one query, and one relay
\* invocation sends at most one chat request upstream, also when it fails.
C21_NoRetryNoBackoff ==
    /\ (mounted /\ CanIssue) => ENABLED (IntervalTick /\ UNCHANGED exceptPoll)
    /\ Cardinality(ChatRequestsSent) <= 1
    /\ (routeResponse /= None /\ routeResponse.status = 200) =>
           Cardinality(ChatRequestsSent) = 1

\* a tick was issued after a query had failed (unknown), and the relay
\* answered 500 after its one request to the local service had failed
C21_Witness ==
    /\ mounted
    /\ Len(queries) = 3
    /\ applied = <<1, 2>>
    /\ queries[2].result = "unknown"
    /\ queries[3].kind = "tick"
    /\ routeResponse /= None
    /\ routeResponse.status = 500
    /\ upstreamCalls = <<"DescribeInstances", "fetch ollama">>

\* C18: whenever a status result is applied to the dashboard (by the mount
\* fetch, an interval tick, a manual refresh or the fetch after a successful
\* toggle), the active-polling indicator is then active if and only if the
\* displayed state is neither running nor stopped.
C18_PollingIffTransitional ==
    [][applied' /= applied => (polling' <=> ~isStable(status'))]_vars

\* every status query issued so far has been answered
AllAnswered == \A i \in 1..Len(queries) : queries[i].done

\* C26: once the responses of all status queries have arrived, the status
\* displayed is the response of the query issued last; the response of an
\* older query never overwrites that of a newer one.
C26_NewestResponseWins ==
    (queries /= <<>> /\ AllAnswered) =>
        status = queries[Len(queries)].result

\* C28: every start/stop request issued from the dashboard was issued while
\* the displayed state was running or stopped, with action stop when it was
\* running and start when it was stopped, however the poll updates
\* interleave with opening the password prompt and submitting it.
C28_ToggleOnlyWhenStable ==
    \A t \in 1..Len(toggleLog) :
        /\ isStable(toggleLog[t].displayed)
        /\ toggleLog[t].action = "stop" <=> toggleLog[t].displayed = "running"

\* -------------------------------------------------- claims on the chats

\* the place of the most recently created assistant turn, 0 without one
lastAssistant(messages) ==
    IF \E k \in 1..Len(messages) : messages[k].role = "assistant"
    THEN CHOOSE k \in 1..Len(messages) :
             /\ messages[k].role = "assistant"
             /\ \A j \in (k + 1)..Len(messages) : messages[j].role /= "assistant"
    ELSE 0

\* the step appends one chunk to the most recently created assistant turn of
\* the session that is active, and changes no other content
AppendsToActiveSession ==
    \E c \in 1..Len(chats), chunk \in ChunkTexts :
        /\ chats[c].id = activeChatId
        /\ lastAssistant(chats[c].messages) > 0
        /\ chats' = [chats EXCEPT
               ![c].messages[lastAssistant(chats[c].messages)].content =
                   Append(@, chunk)]

\* C10: every received chunk is appended to the content of the most recently
\* created assistant turn of the session active at that moment, and no other
\* turn or session changes, whatever select-chat, new-chat, delete-chat and
\* submit actions are interleaved with the chunks.
C10_ChunksGoToActiveSession ==
    [][chunksReceived' /= chunksReceived => AppendsToActiveSession]_vars

\* the assistant turns of a session
assistantTurns(messages) ==
    {k \in 1..Len(messages) : messages[k].role = "assistant"}

\* request r's stream finishes in this step, and the turn it completes is the
\* first assistant turn of a session still titled "New chat"
FirstExchangeCompletes(r) ==
    /\ r \in 1..Len(requests)
    /\ requests[r].phase = "stream"
    /\ requests'[r].phase = "done"
    /\ HasChat(requests[r].chatId)
    /\ ChatById(requests[r].chatId).title = NewChatTitle
    /\ Cardinality(assistantTurns(ChatById(requests[r].chatId).messages)) = 1

\* C11: when the first assistant turn of a session titled "New chat" finishes
\* streaming, the completion callback issues a title request carrying the
\* text of the session's first user turn.
C11_TitleAfterFirstExchange ==
    [][\A r \in 1..MaxRequests :
           FirstExchangeCompletes(r) =>
               /\ requests'[r].titlePhase = "inflight"
               /\ requests'[r].snapFirstUser =
                      firstUserContent(ChatById(requests[r].chatId).messages)]_vars

\* C12: at most one title request is issued per session, whatever the
\* interleaving of submissions with pending title responses.
C12_TitleAtMostOnce ==
    \A r1, r2 \in 1..Len(requests) :
        (r1 < r2 /\ requests[r1].chatId = requests[r2].chatId)
            => ~(requests[r1].titlePhase /= "none"
                   /\ requests[r2].titlePhase /= "none")

\* C13: after initialization the session list is non-empty and the active id
\* identifies exactly one session of the list, in every state reachable
\* through new-chat, select-chat and delete-chat (and the other) actions.
C13_OneActiveSession ==
    /\ Len(chats) > 0
    /\ Cardinality({c \in 1..Len(chats) : chats[c].id = activeChatId}) = 1

\* the session the page started with has been deleted while it was the only
\* one, and a fresh session has taken its place
C13_Witness ==
    /\ ~HasChat(1)
    /\ clock = 2
    /\ Len(chats) = 1
    /\ chats[1].title = NewChatTitle
    /\ chats[1].messages = <<>>
    /\ activeChatId = chats[1].id

\* request r fails in this step: before streaming (it was waiting for the
\* response) or mid-stream
FailsNow(r) ==
    /\ r \in 1..Len(requests)
    /\ requests[r].phase \in {"fetch", "stream"}
    /\ requests'[r].phase = "failed"

\* the content of the assistant turn of request r, <<>> when the session or
\* the turn is gone
assistantContent(r) ==
    IF ~HasChat(requests[r].chatId) THEN <<>>
    ELSE LET ms == ChatById(requests[r].chatId).messages
             hits == SelectSeq(ms, LAMBDA m : m.id = requests[r].assistantId)
         IN  IF hits = <<>> THEN <<>> ELSE hits[1].content

\* the failure of a request leaves every session as it was
FailureRetractsNothing ==
    \A r \in 1..MaxRequests : FailsNow(r) => chats' = chats

\* a request that failed before streaming added no assistant turn, one that
\* failed mid-stream has an assistant turn with exactly its chunks
FailureKeepsChunksAppended ==
    \A r \in 1..MaxRequests : FailsNow(r) =>
        /\ requests[r].phase = "fetch" => requests'[r].assistantId = 0
        /\ (requests[r].phase = "stream" /\ HasChat(requests[r].chatId)) =>
               assistantContent(r)' =
                   [k \in 1..requests[r].chunks |-> ChunkText(r)]

FailureSkipsCompletion ==
    \A r \in 1..MaxRequests : FailsNow(r) => requests'[r].titlePhase = "none"

FailureShowsError ==
    \A r \in 1..MaxRequests : FailsNow(r) => error'

\* C25: a failed chat request retracts nothing of the transcript (after a
\* non-2xx response the user's turn stays and no assistant turn is added,
\* after a mid-stream failure the assistant turn keeps exactly the chunks
\* already appended), an error is shown, and the completion callback is not
\* invoked.
C25_FailureKeepsTranscript ==
    [][/\ FailureRetractsNothing
       /\ FailureKeepsChunksAppended
       /\ FailureSkipsCompletion
       /\ FailureShowsError]_vars

\* the reply of request r is streaming into its session
StreamingInto(r, id) ==
    /\ requests[r].chatId = id
    /\ requests[r].phase = "stream"

\* C27: at most one reply is streaming into a given session at any time,
\* also after the user switched to another session and back during the
\* stream: a second submit for the session is refused until the first reply
\* has ended.
C27_OneReplyPerSession ==
    \A c \in 1..Len(chats) : \A r1, r2 \in 1..Len(requests) :
        (StreamingInto(r1, chats[c].id) /\ StreamingInto(r2, chats[c].id))
            => r1 = r2

\* an accepted submit: handleSubmit went on to send a request
SubmitAccepted == Len(requests') > Len(requests)

\* the user turn the submit of this step appended
submittedTurn == Last(ChatById(activeChatId).messages)

\* the submit of this step cleared the pending list and gave the user turn
\* exactly the images that were pending (no images field when none were)
SubmitTakesPending ==
    SubmitAccepted =>
        /\ pendingImages' = <<>>
        /\ submittedTurn'.role = "user"
        /\ IF pendingImages = <<>>
           THEN "images" \notin DOMAIN submittedTurn'
           ELSE submittedTurn'.images = pendingImages

\* C29: the number of pending image attachments never exceeds 4, however
\* handleImageUpload calls, removePendingImage calls and submits interleave;
\* a submit clears the pending list and attaches exactly the images pending
\* at submit time to the user turn.
C29_AtMostFourPending ==
    /\ [](Len(pendingImages) <= MaxPendingImages)
    /\ [][SubmitTakesPending]_vars

\* two uploads of three images each started while nothing was pending; both
\* have finished and four images are pending
C29_Witness ==
    /\ Len(uploads) = 2
    /\ \A u \in 1..2 : /\ uploads[u].state = "done"
                        /\ uploads[u].seen = 0
                        /\ Len(uploads[u].newImages) = 3
    /\ Len(pendingImages) = MaxPendingImages

\* the user turns of the active session
userTurns == SelectSeq(ChatById(activeChatId).messages,
                       LAMBDA m : m.role = "user")

\* while handleSubmit would return at its guard, no step sends a request or
\* adds a user turn
RefusedSubmitDoesNothing ==
    ((inputTrim(input) = "" /\ pendingImages = <<>>) \/ isLoading \/ disabled)
        => /\ Len(requests') = Len(requests)
           /\ Len(userTurns') = Len(userTurns)

\* C30: every accepted submit eventually re-enables the input (isLoading
\* returns to false after a failure before streaming, after the stream
\* completes and after it errors mid-way, provided every upstream read
\* resolves), the toggle's loading flag returns to false after every
\* toggleInstance outcome, and a submit with empty text and no images, or
\* while loading or disabled, changes no state and sends no request.
C30_LoadingEnds ==
    /\ isLoading ~> ~isLoading
    /\ loading ~> ~loading
    /\ [][RefusedSubmitDoesNothing]_vars

\* both requests have ended, one of them in failure, a toggle has been
\* answered, and neither loading flag is set
C30_Witness ==
    /\ Len(requests) = 2
    /\ \E r \in 1..2 : requests[r].phase = "failed"
    /\ \E r \in 1..2 : requests[r].phase = "done"
    /\ ~isLoading
    /\ Len(toggleLog) = 1
    /\ togglePc = "idle"
    /\ ~loading

\* ------------------------------------------------ claims on the chat route

RunningWithAddress(instStatus) ==
    /\ instStatus.kind = "object"
    /\ instStatus.state = "running"
    /\ instStatus.publicIp /= Null

\* POST of chat/route.ts was called for the local provider and the lifecycle
\* query returned something other than running with an address
LocalNotServing ==
    /\ routeRequest /= None
    /\ routeRequest.endpoint = "route"
    /\ routeRequest.provider /= "cloud"
    /\ routeRequest.lifecycle.kind /= "throw"
    /\ ~RunningWithAddress(routeRequest.lifecycle)

Called(name) == \E i \in 1..Len(upstreamCalls) : upstreamCalls[i] = name

\* C14: for provider local, when the lifecycle query returns any state other
\* than running, no matching resource, or running without an address, the
\* relay answers 503 and issues no request to the local chat endpoint.
C14_LocalUnavailable ==
    LocalNotServing =>
        /\ routeResponse.status = 503
        /\ routeResponse.stream = "none"
        /\ ~Called("fetch ollama")
        /\ enqueued = <<>>

\* the instance is running but has no public address
C14_Witness ==
    /\ LocalNotServing
    /\ routeRequest.lifecycle.kind = "object"
    /\ routeRequest.lifecycle.state = "running"
    /\ routeResponse.status = 503

\* POST was called for the cloud provider and the API credential its route
\* reads is not configured
CloudWithoutCredential ==
    /\ routeRequest /= None
    /\ routeRequest.provider = "cloud"
    /\ IF routeRequest.endpoint = "route"
       THEN envHfToken = Undefined \/ envHfToken = ""
       ELSE envNvidiaApiKey = Undefined \/ envNvidiaApiKey = ""

\* C15: for provider cloud without a configured API credential the relay
\* returns a non-2xx response, constructs no client, issues no completion
\* request and emits no chunk.
C15_CloudNeedsCredential ==
    CloudWithoutCredential =>
        /\ routeResponse.status \notin 200..299
        /\ routeResponse.stream = "none"
        /\ upstreamCalls = <<>>
        /\ enqueued = <<>>
        /\ received = <<>>

C15_Witness ==
    /\ CloudWithoutCredential
    /\ routeRequest.endpoint = "route"
    /\ envInstanceId /= ""
    /\ routeResponse.status = 500

RECURSIVE concatAll(_)
\* the upstream call of the request failed before a byte of a response body
\* was read: the lifecycle query threw, or the request to the local service
\* was made and threw, was answered with a status outside 2xx or without a
\* body, or the cloud completion call was made and threw
FailedBeforeBody ==
    /\ routeRequest /= None
    /\ \/ /\ routeRequest.endpoint = "route"
          /\ routeRequest.provider /= "cloud"
          /\ routeRequest.lifecycle.kind = "throw"
       \/ /\ Called("fetch ollama")
          /\ routeRequest.upstream \in {"throw", "notOk", "noBody"}
       \/ /\ Called("completions.create")
          /\ routeRequest.upstream = "throw"

\* C24: when the relay's upstream call fails before any response body is
\* read, the response has a status outside 2xx and a short text instead of a
\* stream as its body, and no text chunk is ever enqueued or delivered for
\* that request.
C24_EarlyFailureIsNon2xx ==
    FailedBeforeBody =>
        /\ routeResponse.status \notin 200..299
        /\ routeResponse.stream = "none"
        /\ enqueued = <<>>
        /\ delivered = 0
        /\ received = <<>>

\* the local service was asked and answered 404, and the relay answered 404
C24_Witness ==
    /\ routeRequest /= None
    /\ Called("fetch ollama")
    /\ routeRequest.upstream = "notOk"
    /\ routeResponse.status = 404

concatAll(pieces) ==
    IF pieces = <<>> THEN <<>>
    ELSE Head(pieces) \o concatAll(Tail(pieces))

\* C16: when the upstream fails after k chunks were emitted, the outbound
\* stream ends errored (never closed) and the k chunks stay delivered to the
\* consumer, once each and in order.
C16_FailureKeepsChunks ==
    (routeResponse /= None /\ upstreamFailed /\ streamState /= "cancelled") =>
        /\ streamState = "errored"
        /\ received = concatAll(enqueued)

\* C22: after the consumer has cancelled the outbound stream the relay
\* reads nothing more from its upstream.
C22_NoReadsAfterCancel ==
    [][streamState = "cancelled" =>
           (upstream' = upstream /\ cloudStream' = cloudStream)]_vars

\* the non-empty contents of the events of a completion stream
RECURSIVE nonEmptyContents(_)
nonEmptyContents(events) ==
    IF events = <<>> THEN <<>>
    ELSE (IF Head(events).content /= <<>> THEN <<Head(events).content>>
          ELSE <<>>)
         \o nonEmptyContents(Tail(events))

\* the text fragments of the upstream events of the request, in their order
UpstreamFragments ==
    IF routeResponse.stream = "cloud"
    THEN nonEmptyContents(routeRequest.events)
    ELSE ValidFragments(BodyLinesOf(responseBody))

IsPrefix(p, q) == Len(p) <= Len(q) /\ p = SubSeq(q, 1, Len(p))

\* C17: for both providers the relay emits exactly the non-empty text
\* fragments of the upstream events, in upstream order; what the client has
\* put together is the concatenation of the chunks it read, and after a
\* stream that completed normally and was read to its end it is the
\* concatenation of all the fragments.
C17_RelayedTextIsUpstreamText ==
    (routeResponse /= None /\ routeResponse.stream /= "none") =>
        /\ IsPrefix(enqueued, UpstreamFragments)
        /\ (streamState = "closed" => enqueued = UpstreamFragments)
        /\ received = concatAll(SubSeq(enqueued, 1, delivered))
        /\ (streamState = "closed" /\ delivered = Len(enqueued)
                => received = concatAll(UpstreamFragments))

\* a cloud stream with an empty delta among its events has completed, and
\* the client has read its two or more fragments
C17_Witness ==
    /\ routeResponse /= None
    /\ routeResponse.stream = "cloud"
    /\ \E i \in 1..Len(routeRequest.events) :
           routeRequest.events[i].content = <<>>
    /\ streamState = "closed"
    /\ Len(enqueued) >= 2
    /\ delivered = Len(enqueued)
    /\ received = concatAll(UpstreamFragments)

====
